---------------------------- MODULE Spec2Model ----------------------------
(***************************************************************************)
(* A model of the time-split dashboard's decision logic:                   *)
(*   - the dataset configuration reader (datasets/_config.py),             *)
(*   - the TTL- and digest-gated reload caches of the dataset widget       *)
(*     (widgets/data/_datasets.py),                                        *)
(*   - the query parameter codec (widgets/types.py),                       *)
(*   - the dataset frame loader (datasets/_load.py, datasets/_datasets.py).*)
(*                                                                         *)
(* Python values are represented as follows.  A bytes/str value that the   *)
(* code only compares is a TLA+ string; a value the code parses is a       *)
(* sequence of one-character strings; None is a field of its own in the    *)
(* record that holds the value (TLC cannot compare values of two kinds).   *)
(***************************************************************************)
EXTENDS Integers, Sequences, FiniteSets, TLC

VARIABLES
    \* ---- process and environment of the dataset widget -----------------
    clock,                  \* wall clock, in seconds
    nAdvance,               \* how many times the clock was advanced
    cfgFile,                \* the file at DATASETS_CONFIG_PATH: [exists, data]
    dataFiles,              \* the dataset files: path -> state of the file
    DATASETS_CONFIG_PATH,   \* config.DATASETS_CONFIG_PATH ("" once blanked)
    REQUIRE_DATASETS,       \* config.REQUIRE_DATASETS
    cfgCache,               \* cache_resource of load_dataset_configs: <<>> or <<entry>>
    dsCache,                \* cache_resource of load_datasets: <<>> or <<entry>>
    widget,                 \* DatasetWidget: [_sizes, _digest]
    proc,                   \* [alive, exitCode]
    last,                   \* what the most recent call did and returned
    \* ---- QueryParams ----------------------------------------------------
    qIn, qOut,
    \* ---- load_dataset_configs(file, return_digest=True) -----------------
    fIn, fOut,
    \* ---- dataframe_from_path / load_dataset -----------------------------
    lIn, lOut,
    \* ---- the thread pool of load_datasets -------------------------------
    pool,
    \* ---- PerformanceTweaksWidget and the config values it adjusts -------
    perf,
    \* ---- the render passes of the browser sessions ----------------------
    sess,
    \* ---- a call of one of the other functions: arguments, outcome -------
    cIn, cOut

vars == <<clock, nAdvance, cfgFile, dataFiles, DATASETS_CONFIG_PATH, REQUIRE_DATASETS,
          cfgCache, dsCache, widget, proc, last, qIn, qOut, fIn, fOut, lIn, lOut,
          pool, perf, sess, cIn, cOut>>

cacheVars == <<clock, nAdvance, cfgFile, dataFiles, DATASETS_CONFIG_PATH, REQUIRE_DATASETS,
               cfgCache, dsCache, widget, proc, last>>
queryVars == <<qIn, qOut>>
configVars == <<fIn, fOut>>
loadVars == <<lIn, lOut>>
poolVars == <<pool>>
perfVars == <<perf, sess>>
callVars == <<cIn, cOut>>
restVars == <<pool, perf, sess, cIn, cOut>>

(***************************************************************************)
(* Generic helpers.                                                        *)
(***************************************************************************)
SeqsUpTo(S, n) == UNION {[1..k -> S] : k \in 0..n}

Min(a, b) == IF a <= b THEN a ELSE b

(***************************************************************************)
(* datasets/_read_fn.py.  A path is the sequence of its characters:        *)
(* "a.csv" is <<"a", ".", "c", "s", "v">>.                                 *)
(***************************************************************************)
\* the format suffixes and the pandas function each is mapped to
FILE_SUFFIXES ==
    (<<"c", "s", "v">> :> "read_csv")
        @@ (<<"j", "s", "o", "n">> :> "read_json")
        @@ (<<"p", "a", "r", "q">> :> "read_parquet")
        @@ (<<"p", "a", "r", "q", "u", "e", "t">> :> "read_parquet")
        @@ (<<"f", "e", "a", "t", "h", "e", "r">> :> "read_feather")
        @@ (<<"f", "t", "r">> :> "read_feather")
        @@ (<<"o", "r", "c">> :> "read_orc")

COMPRESSION_SUFFIXES ==
    {<<"z", "i", "p">>, <<"g", "z", "i", "p">>, <<"b", "z", "2">>, <<"z", "s", "t", "d">>,
     <<"x", "z">>, <<"t", "a", "r">>}

\* s.endswith(suffix)
endswith(s, suffix) ==
    Len(s) >= Len(suffix) /\ SubSeq(s, Len(s) - Len(suffix) + 1, Len(s)) = suffix

RECURSIVE rsplit(_, _, _)
\* s.rsplit(sep, maxsplit=maxsplit) for a separator of one character
rsplit(s, sep, maxsplit) ==
    IF maxsplit = 0 \/ \A i \in 1..Len(s) : s[i] # sep THEN <<s>>
    ELSE LET k == CHOOSE i \in 1..Len(s) :
                      s[i] = sep /\ \A j \in (i + 1)..Len(s) : s[j] # sep
         IN  rsplit(SubSeq(s, 1, k - 1), sep, maxsplit - 1) \o <<SubSeq(s, k + 1, Len(s))>>

\* get_pandas_read_function(path): [ok, suffix, read_fn, raised]; ok when a
\* read function was found for the format suffix, raised the exception
\* otherwise.  parts[-2] of a single part raises IndexError.
get_pandas_read_function(path) ==
    LET found(parts, is_compressed) ==
            IF is_compressed /\ Len(parts) < 2
            THEN [ok |-> FALSE, suffix |-> <<>>, read_fn |-> "", raised |-> "IndexError"]
            ELSE LET file_suffix == IF is_compressed THEN parts[Len(parts) - 1]
                                    ELSE parts[Len(parts)]
                 IN  IF file_suffix \in DOMAIN FILE_SUFFIXES
                     THEN [ok |-> TRUE, suffix |-> file_suffix,
                           read_fn |-> FILE_SUFFIXES[file_suffix], raised |-> ""]
                     ELSE [ok |-> FALSE, suffix |-> file_suffix, read_fn |-> "",
                           raised |-> "ValueError"]
    IN  found(rsplit(path, ".", 3), \E c \in COMPRESSION_SUFFIXES : endswith(path, c))

(***************************************************************************)
(* datasets/_config.py.  The bytes of a configuration file are a sequence  *)
(* of tokens: a table section, a comment line, or a line that is not TOML. *)
(***************************************************************************)
NoLabel == "<absent>"

Section(n, l, p) == [kind |-> "section", name |-> n, label |-> l, path |-> p]

Comment == [kind |-> "comment", name |-> "", label |-> NoLabel, path |-> <<>>]

Junk == [kind |-> "junk", name |-> "", label |-> NoLabel, path |-> <<>>]

\* Special value: the dataset already has a datetime-like index.
USE_ORIGINAL_INDEX == "__INDEX__"

\* DatasetConfig(**raw) of a section that gives a label and a path: index and
\* aggregations take their defaults.
DatasetConfig(l, p) ==
    [label |-> l, path |-> p, index |-> USE_ORIGINAL_INDEX, aggregations |-> {}]

NoConfig == [label |-> "", path |-> <<>>, index |-> "", aggregations |-> {}]

\* hashlib.sha256(data).digest(): a function of the bytes alone, taken to be
\* collision free.  b"" (no digest) is the empty sequence.
EmptyDigest == <<>>

Sha256(data) == <<"sha256", data>>

RECURSIVE toml_tables(_, _)
\* the tokens of `data` from the i-th on that are table sections, in file order
toml_tables(data, i) ==
    IF i > Len(data) THEN <<>>
    ELSE IF data[i].kind = "section" THEN <<data[i]>> \o toml_tables(data, i + 1)
    ELSE toml_tables(data, i + 1)

\* tomllib.load: [ok, raw_dict]; a line that is not TOML, or a table declared
\* twice, is a TOMLDecodeError.  raw_dict keeps the sections in file order.
tomllib_load(data) ==
    LET secs == toml_tables(data, 1)
        bad == (\E i \in 1..Len(data) : data[i].kind = "junk")
               \/ (\E i, j \in 1..Len(secs) : i < j /\ secs[i].name = secs[j].name)
    IN  [ok |-> ~bad, raw_dict |-> IF bad THEN <<>> ELSE secs]

\* _read_toml, had it hashed the parsed tables in place of the bytes
read_toml_hashing_tables(file) ==
    IF ~file.exists
    THEN [ok |-> FALSE, error |-> "FileNotFoundError", digest |-> EmptyDigest, raw_dict |-> <<>>]
    ELSE LET t == tomllib_load(file.data)
         IN  IF t.ok
             THEN [ok |-> TRUE, error |-> "", digest |-> Sha256(t.raw_dict),
                   raw_dict |-> t.raw_dict]
             ELSE [ok |-> FALSE, error |-> "TOMLDecodeError", digest |-> EmptyDigest,
                   raw_dict |-> <<>>]

\* _read_toml: [ok, error, digest, raw_dict]
read_toml(file) ==
    IF ~file.exists
    THEN [ok |-> FALSE, error |-> "FileNotFoundError", digest |-> EmptyDigest, raw_dict |-> <<>>]
    ELSE LET data == file.data
             sha256 == Sha256(data)
             t == tomllib_load(data)
         IN  IF t.ok
             THEN [ok |-> TRUE, error |-> "", digest |-> sha256, raw_dict |-> t.raw_dict]
             ELSE [ok |-> FALSE, error |-> "TOMLDecodeError", digest |-> EmptyDigest,
                   raw_dict |-> <<>>]

\* seen.get(label): the config stored under `label`, found in `seen` (a sequence
\* of the configs accepted so far, whose labels are distinct)
seen_get(seen, label) ==
    IF \E i \in 1..Len(seen) : seen[i].label = label
    THEN [found |-> TRUE, cfg |-> seen[CHOOSE i \in 1..Len(seen) : seen[i].label = label]]
    ELSE [found |-> FALSE, cfg |-> NoConfig]

\* _create, had it not looked the label up in `seen`
create_without_seen(raw, seen) ==
    LET config == DatasetConfig(raw.label, raw.path)
    IN  IF ~get_pandas_read_function(config.path).ok
        THEN [ok |-> FALSE, error |-> "ValueError: Could not derive a read function",
              config |-> config, previous |-> NoConfig]
        ELSE [ok |-> TRUE, error |-> "", config |-> config, previous |-> NoConfig]

\* _create(raw, seen=labels): [ok, error, config, previous]
create(raw, seen) ==
    LET config == DatasetConfig(raw.label, raw.path)
        previous == seen_get(seen, config.label)
    IN  IF previous.found
        THEN [ok |-> FALSE, error |-> "ValueError: Duplicate label",
              config |-> config, previous |-> previous.cfg]
        ELSE IF ~get_pandas_read_function(config.path).ok
        THEN [ok |-> FALSE, error |-> "ValueError: Could not derive a read function",
              config |-> config, previous |-> NoConfig]
        ELSE [ok |-> TRUE, error |-> "", config |-> config, previous |-> NoConfig]

RECURSIVE load_loop(_, _, _, _)
\* the for-loop of load_dataset_configs over raw_dict.items(), from section i on,
\* with rv the configs accepted so far (labels = rv: both grow together)
load_loop(raw_dict, i, rv, digest) ==
    IF i > Len(raw_dict)
    THEN [ok |-> TRUE, error |-> "", current |-> NoConfig, previous |-> NoConfig,
          digest |-> digest, configs |-> rv]
    ELSE LET section == raw_dict[i]
             \* config.setdefault("label", section)
             raw == [label |-> IF section.label = NoLabel THEN section.name ELSE section.label,
                     path |-> section.path]
             c == create(raw, rv)
         IN  IF c.ok
             THEN load_loop(raw_dict, i + 1, Append(rv, c.config), digest)
             ELSE [ok |-> FALSE, error |-> c.error, current |-> c.config,
                   previous |-> c.previous, digest |-> EmptyDigest, configs |-> <<>>]

\* datasets.load_dataset_configs(file, return_digest=True)
load_dataset_configs_from_path(file) ==
    LET r == read_toml(file)
    IN  IF ~r.ok
        THEN [ok |-> FALSE, error |-> r.error, current |-> NoConfig, previous |-> NoConfig,
              digest |-> EmptyDigest, configs |-> <<>>]
        ELSE load_loop(r.raw_dict, 1, <<>>, r.digest)

(***************************************************************************)
(* datasets/_load.py and datasets/_datasets.py.  A frame is                *)
(* [kind, index, date, columns]: the type of its index, the index values   *)
(* (one per row; a datetime is its day number), the strings of its "date"  *)
(* column (one per row when the column exists) and its column names.       *)
(***************************************************************************)
NoFrame == [kind |-> "", index |-> <<>>, date |-> <<>>, columns |-> {}]

\* pd.to_datetime of one string: [ok, value]
to_datetime1(s) ==
    CASE s = "2019-05-11" -> [ok |-> TRUE, value |-> 11]
      [] s = "2019-05-11 00:00:00" -> [ok |-> TRUE, value |-> 11]
      [] s = "2019-05-12" -> [ok |-> TRUE, value |-> 12]
      [] s = "2025-01-01" -> [ok |-> TRUE, value |-> 2077]
      [] OTHER -> [ok |-> FALSE, value |-> 0]

\* pd.to_datetime(df[index].astype(str)): [ok, values]
to_datetime(col) ==
    IF \A i \in 1..Len(col) : to_datetime1(col[i]).ok
    THEN [ok |-> TRUE, values |-> [i \in 1..Len(col) |-> to_datetime1(col[i]).value]]
    ELSE [ok |-> FALSE, values |-> <<>>]

\* index.duplicated(False)[i]: the i-th index value occurs more than once
duplicated(index, i) == \E j \in 1..Len(index) : j # i /\ index[j] = index[i]

\* df.index.is_unique
is_unique(index) == \A i \in 1..Len(index) : ~duplicated(index, i)

RECURSIVE loc_duplicated(_, _)
\* df.loc[index.duplicated(False)]: the rows [pos, idx] with a duplicated index
\* value, in frame order, from row i on
loc_duplicated(index, i) ==
    IF i > Len(index) THEN <<>>
    ELSE IF duplicated(index, i)
         THEN <<[pos |-> i, idx |-> index[i]]>> \o loc_duplicated(index, i + 1)
         ELSE loc_duplicated(index, i + 1)

\* duplicates.head(head), had it kept every row
head_rows_keeps_all(rows, n) == rows

\* duplicates.head(head)
head_rows(rows, n) == SubSeq(rows, 1, Min(n, Len(rows)))

RECURSIVE sort_index_desc(_)
\* rows.sort_index(ascending=False); rows with equal index values keep their order
sort_index_desc(rows) ==
    IF Len(rows) = 0 THEN <<>>
    ELSE LET m == CHOOSE i \in 1..Len(rows) :
                     /\ \A j \in 1..Len(rows) : rows[j].idx <= rows[i].idx
                     /\ \A j \in 1..(i - 1) : rows[j].idx < rows[i].idx
         IN  <<rows[m]>> \o sort_index_desc(SubSeq(rows, 1, m - 1) \o SubSeq(rows, m + 1, Len(rows)))

\* DuplicateIndexError.__init__'s default for `head`
DEFAULT_HEAD == 5

\* DuplicateIndexError(df, head): [n_total, n_duplicated, samples]
DuplicateIndexError(index, head) ==
    LET duplicates == loc_duplicated(index, 1)
        shown == IF Len(duplicates) > head THEN head_rows(duplicates, head) ELSE duplicates
    IN  [n_total |-> Len(index), n_duplicated |-> Len(duplicates),
         samples |-> sort_index_desc(shown)]

NoDuplicates == [n_total |-> 0, n_duplicated |-> 0, samples |-> <<>>]

Raise(e) == [ok |-> FALSE, error |-> e, df |-> NoFrame, dup |-> NoDuplicates]

\* the index stage of dataframe_from_path, had it not checked the type of the
\* original index
set_datetime_index_unchecked(df, index) ==
    IF index = USE_ORIGINAL_INDEX
    THEN [ok |-> TRUE, error |-> "", df |-> df]
    ELSE IF index \notin df.columns
    THEN [ok |-> FALSE, error |-> "KeyError", df |-> NoFrame]
    ELSE LET t == to_datetime(df.date)
         IN  IF ~t.ok
             THEN [ok |-> FALSE, error |-> "ValueError: to_datetime", df |-> NoFrame]
             ELSE [ok |-> TRUE, error |-> "",
                   df |-> [kind |-> "DatetimeIndex", index |-> t.values, date |-> <<>>,
                           columns |-> df.columns \ {index}]]

\* the index stage of dataframe_from_path: [ok, error, df]
set_datetime_index(df, index) ==
    IF index = USE_ORIGINAL_INDEX
    THEN IF df.kind # "DatetimeIndex"
         THEN [ok |-> FALSE, error |-> "TypeError: Bad index", df |-> NoFrame]
         ELSE [ok |-> TRUE, error |-> "", df |-> df]
    ELSE IF index \notin df.columns
    THEN [ok |-> FALSE, error |-> "KeyError", df |-> NoFrame]
    ELSE LET t == to_datetime(df.date)
         IN  IF ~t.ok
             THEN [ok |-> FALSE, error |-> "ValueError: to_datetime", df |-> NoFrame]
             ELSE [ok |-> TRUE, error |-> "",
                   df |-> [kind |-> "DatetimeIndex", index |-> t.values, date |-> <<>>,
                           columns |-> df.columns \ {index}]]

\* dataframe_from_path(path, index, verify), `disk` being the frame that the
\* pandas read function returns for the file at `path`: [ok, error, df, dup]
dataframe_from_path(path, index, verify, disk) ==
    IF ~get_pandas_read_function(path).ok
    THEN Raise("ValueError: Could not derive a read function")
    ELSE LET s == set_datetime_index(disk, index)
         IN  IF ~s.ok THEN Raise(s.error)
             ELSE IF verify = FALSE \/ is_unique(s.df.index)
             THEN [ok |-> TRUE, error |-> "", df |-> s.df, dup |-> NoDuplicates]
             ELSE [ok |-> FALSE, error |-> "DuplicateIndexError", df |-> NoFrame,
                   dup |-> DuplicateIndexError(s.df.index, DEFAULT_HEAD)]

\* the aggregation names that Series.agg accepts
AGGREGATIONS == {"sum", "min", "max", "mean"}

\* Dataset.__post_init__: "" when the aggregations pass, else the error.
\* aggregations is a set of <<column, aggregation>> pairs.
post_init(aggregations, df) ==
    IF \E a \in aggregations : a[1] \notin df.columns THEN "AssertionError"
    ELSE IF \E a \in aggregations : a[2] \notin AGGREGATIONS THEN "AttributeError"
    ELSE ""

\* load_dataset(config): [ok, error, dataset, dup].  verify keeps its default.
load_dataset(config, disk) ==
    LET r == dataframe_from_path(config.path, config.index, TRUE, disk)
    IN  IF ~r.ok THEN [ok |-> FALSE, error |-> r.error, dataset |-> [config |-> config, df |-> NoFrame],
                       dup |-> r.dup]
        ELSE IF post_init(config.aggregations, r.df) # ""
        THEN [ok |-> FALSE, error |-> post_init(config.aggregations, r.df),
              dataset |-> [config |-> config, df |-> NoFrame], dup |-> NoDuplicates]
        ELSE [ok |-> TRUE, error |-> "", dataset |-> [config |-> config, df |-> r.df],
              dup |-> NoDuplicates]

(***************************************************************************)
(* widgets/data/_datasets.py: the two cached loaders and DatasetWidget.    *)
(***************************************************************************)
\* config.DATASET_CONFIG_CACHE_TTL and config.DATASET_CACHE_TTL, in seconds
DATASET_CONFIG_CACHE_TTL == 30

DATASET_CACHE_TTL == 43200

\* force_exit(52)
EXIT_CODE == 52

\* the value load_dataset_configs returns: (configs | None, now, digest)
ConfigsValue(isNone, configs, now, digest) ==
    [none |-> isNone, configs |-> configs, loaded |-> now, digest |-> digest]

NoValue == ConfigsValue(TRUE, <<>>, 0, EmptyDigest)

\* on_load_error without the REQUIRE_DATASETS branch
on_load_error_never_exits(e) ==
    IF e = "FileNotFoundError"
    THEN [value |-> ConfigsValue(TRUE, <<>>, clock, EmptyDigest), path |-> "",
          exit |-> FALSE, log |-> "info"]
    ELSE [value |-> ConfigsValue(TRUE, <<>>, clock, EmptyDigest),
          path |-> DATASETS_CONFIG_PATH, exit |-> FALSE, log |-> "warning"]

\* on_load_error leaving DATASETS_CONFIG_PATH as it is
on_load_error_keeps_path(e) ==
    IF REQUIRE_DATASETS
    THEN [value |-> NoValue, path |-> DATASETS_CONFIG_PATH, exit |-> TRUE,
          log |-> "exception"]
    ELSE [value |-> ConfigsValue(TRUE, <<>>, clock, EmptyDigest),
          path |-> DATASETS_CONFIG_PATH, exit |-> FALSE,
          log |-> IF e = "FileNotFoundError" THEN "info" ELSE "warning"]

\* the except-branch of load_dataset_configs for the error `e` raised by the read
on_load_error(e) ==
    IF REQUIRE_DATASETS
    THEN [value |-> NoValue, path |-> DATASETS_CONFIG_PATH, exit |-> TRUE,
          log |-> "exception"]
    ELSE IF e = "FileNotFoundError"
    THEN [value |-> ConfigsValue(TRUE, <<>>, clock, EmptyDigest), path |-> "",
          exit |-> FALSE, log |-> "info"]
    ELSE [value |-> ConfigsValue(TRUE, <<>>, clock, EmptyDigest),
          path |-> DATASETS_CONFIG_PATH, exit |-> FALSE, log |-> "warning"]

\* the body of load_dataset_configs(): [value, path, exit, log, read, error]
\* path is DATASETS_CONFIG_PATH afterwards, read says that the file was opened
load_dataset_configs ==
    IF DATASETS_CONFIG_PATH = ""
    THEN [value |-> ConfigsValue(TRUE, <<>>, clock, EmptyDigest), path |-> "",
          exit |-> FALSE, log |-> "", read |-> FALSE, error |-> ""]
    ELSE LET failed(h, e) ==
                 [value |-> h.value, path |-> h.path, exit |-> h.exit, log |-> h.log,
                  read |-> TRUE, error |-> e]
             loaded(r) ==
                 IF r.ok
                 THEN [value |-> ConfigsValue(FALSE, r.configs, clock, r.digest),
                       path |-> DATASETS_CONFIG_PATH, exit |-> FALSE, log |-> "info",
                       read |-> TRUE, error |-> ""]
                 ELSE failed(on_load_error(r.error), r.error)
         IN  loaded(load_dataset_configs_from_path(cfgFile))

\* load_dataset_configs_cached with the ttl left out of the decorator
load_dataset_configs_cached_no_ttl == cfgCache # <<>>

\* @st.cache_resource(ttl=config.DATASET_CONFIG_CACHE_TTL, max_entries=1): the
\* one entry (the function takes no arguments) is served until its ttl is over
load_dataset_configs_cached ==
    /\ cfgCache # <<>>
    /\ clock < cfgCache[1].stored + DATASET_CONFIG_CACHE_TTL

\* a call of the cached load_dataset_configs():
\* [hit, value, path, exit, log, read, error, cache]
call_load_dataset_configs ==
    IF load_dataset_configs_cached
    THEN [hit |-> TRUE, value |-> cfgCache[1].value, path |-> DATASETS_CONFIG_PATH,
          exit |-> FALSE, log |-> "", read |-> FALSE, error |-> "", cache |-> cfgCache]
    ELSE LET miss(b) ==
                 [hit |-> FALSE, value |-> b.value, path |-> b.path, exit |-> b.exit,
                  log |-> b.log, read |-> b.read, error |-> b.error,
                  cache |-> IF b.exit THEN cfgCache
                            ELSE <<[value |-> b.value, stored |-> clock]>>]
         IN  miss(load_dataset_configs)

\* the body of load_datasets(digest, _cfgs): [ok, error, datasets, loaded].
\* executor.map yields in submission order; list() raises the first failure.
load_datasets(digest, cfgs) ==
    LET listed(res) ==
            IF \E i \in 1..Len(cfgs) : ~res[i].ok
            THEN [ok |-> FALSE,
                  error |-> res[CHOOSE i \in 1..Len(cfgs) :
                                   ~res[i].ok /\ \A j \in 1..(i - 1) : res[j].ok].error,
                  datasets |-> <<>>, loaded |-> clock]
            ELSE [ok |-> TRUE, error |-> "",
                  datasets |-> [i \in 1..Len(cfgs) |-> res[i].dataset], loaded |-> clock]
    IN  listed([i \in 1..Len(cfgs) |-> load_dataset(cfgs[i], dataFiles[cfgs[i].path])])

\* load_datasets_cached with the decorator left out: every call runs the body
load_datasets_cached_never(digest) == FALSE

\* load_datasets_cached with the digest left out of the key (a parameter _digest)
load_datasets_cached_any_digest(digest) ==
    /\ dsCache # <<>>
    /\ clock < dsCache[1].stored + DATASET_CACHE_TTL

\* @st.cache_resource(ttl=config.DATASET_CACHE_TTL, max_entries=1): the entry is
\* keyed by `digest` alone (_cfgs, with its underscore, is not hashed)
load_datasets_cached(digest) ==
    /\ dsCache # <<>>
    /\ dsCache[1].key = digest
    /\ clock < dsCache[1].stored + DATASET_CACHE_TTL

\* a call of the cached load_datasets(digest, cfgs): [hit, ok, error, datasets, loaded, cache]
call_load_datasets(digest, cfgs) ==
    IF load_datasets_cached(digest)
    THEN [hit |-> TRUE, ok |-> TRUE, error |-> "", datasets |-> dsCache[1].value.datasets,
          loaded |-> dsCache[1].value.loaded, cache |-> dsCache]
    ELSE LET miss(b) ==
                 [hit |-> FALSE, ok |-> b.ok, error |-> b.error, datasets |-> b.datasets,
                  loaded |-> b.loaded,
                  cache |-> IF b.ok
                            THEN <<[key |-> digest,
                                    value |-> [datasets |-> b.datasets, loaded |-> b.loaded],
                                    stored |-> clock]>>
                            ELSE dsCache]
         IN  miss(load_datasets(digest, cfgs))

\* sizes = {ds.label: len(ds.df) for ds in datasets}
sizes_of(datasets) ==
    {<<datasets[i].config.label, Len(datasets[i].df.index)>> : i \in 1..Len(datasets)}

(***************************************************************************)
(* The environment of the dataset widget: files and time.                  *)
(***************************************************************************)
PathA == <<"a", ".", "c", "s", "v">>

PathB == <<"b", ".", "c", "s", "v", ".", "z", "i", "p">>

DataPaths == {PathA, PathB}

Frame(index) == [kind |-> "DatetimeIndex", index |-> index, date |-> <<>>, columns |-> {"x"}]

\* what a dataset file may hold: one row, or two rows under one timestamp
DiskFrames == {Frame(<<11>>), Frame(<<11, 11>>)}

SecA == Section("a", NoLabel, PathA)

SecB == Section("b", "B", PathB)

\* what the configuration file may hold: nothing, one dataset, the same dataset
\* after a comment line, two datasets, no TOML
ConfigContents == {<<>>, <<SecA>>, <<Comment, SecA>>, <<SecA, SecB>>, <<Junk>>}

Missing == [exists |-> FALSE, data |-> <<>>]

File(data) == [exists |-> TRUE, data |-> data]

\* the clock advances by one of these steps (seconds): 29 is within the config
\* ttl, 43171 is past it and within the dataset ttl, 29 + 43171 is the dataset ttl
ClockSteps == {29, 43171}

MaxAdvances == 2

\* the record of the call made in the latest step (NoCall when the step was the
\* environment's): what it found in the caches, what it did, what it returned
NoCall ==
    [op |-> "none", now |-> 0, pathBefore |-> "", disk |-> [p \in DataPaths |-> NoFrame],
     cfgHad |-> FALSE, cfgAge |-> 0, cfgPrev |-> NoValue, cfgHit |-> FALSE,
     cfgRead |-> FALSE, cfgError |-> "", cfgLog |-> "", cfgValue |-> NoValue,
     exited |-> FALSE,
     dsCalled |-> FALSE, dsHad |-> FALSE, dsPrevKey |-> EmptyDigest, dsAge |-> 0,
     dsPrev |-> <<>>, dsHit |-> FALSE, raised |-> FALSE, error |-> "",
     returned |-> FALSE, datasets |-> <<>>, size |-> 0, has_data |-> FALSE,
     logged |-> FALSE]

\* the part of a call's record that call_load_dataset_configs fills in
ConfigsCall(op, c) ==
    [NoCall EXCEPT
        !.op = op, !.now = clock, !.pathBefore = DATASETS_CONFIG_PATH, !.disk = dataFiles,
        !.cfgHad = (cfgCache # <<>>),
        !.cfgAge = IF cfgCache # <<>> THEN clock - cfgCache[1].stored ELSE 0,
        !.cfgPrev = IF cfgCache # <<>> THEN cfgCache[1].value ELSE NoValue,
        !.cfgHit = c.hit, !.cfgRead = c.read, !.cfgError = c.error, !.cfgLog = c.log,
        !.cfgValue = c.value, !.exited = c.exit]

CacheInit ==
    /\ clock = 0
    /\ nAdvance = 0
    /\ cfgFile \in {Missing} \cup {File(d) : d \in ConfigContents}
    /\ dataFiles = [p \in DataPaths |-> Frame(<<11>>)]
    /\ DATASETS_CONFIG_PATH = "datasets.toml"
    /\ REQUIRE_DATASETS \in BOOLEAN
    /\ cfgCache = <<>>
    /\ dsCache = <<>>
    /\ widget = [_sizes |-> {}, _digest |-> EmptyDigest]
    /\ proc = [alive |-> TRUE, exitCode |-> 0]
    /\ last = NoCall

AdvanceClock ==
    /\ proc.alive
    /\ last' = NoCall
    /\ nAdvance < MaxAdvances
    /\ \E d \in ClockSteps : clock' = clock + d
    /\ nAdvance' = nAdvance + 1
    /\ UNCHANGED <<cfgFile, dataFiles, DATASETS_CONFIG_PATH, REQUIRE_DATASETS, cfgCache,
                   dsCache, widget, proc>>

WriteConfigFile ==
    /\ proc.alive
    /\ last' = NoCall
    /\ \E d \in ConfigContents : cfgFile # File(d) /\ cfgFile' = File(d)
    /\ UNCHANGED <<clock, nAdvance, dataFiles, DATASETS_CONFIG_PATH, REQUIRE_DATASETS,
                   cfgCache, dsCache, widget, proc>>

DeleteConfigFile ==
    /\ proc.alive
    /\ last' = NoCall
    /\ cfgFile.exists
    /\ cfgFile' = Missing
    /\ UNCHANGED <<clock, nAdvance, dataFiles, DATASETS_CONFIG_PATH, REQUIRE_DATASETS,
                   cfgCache, dsCache, widget, proc>>

WriteDataFile ==
    /\ proc.alive
    /\ last' = NoCall
    /\ \E p \in DataPaths, f \in DiskFrames :
          /\ dataFiles[p] # f
          /\ dataFiles' = [dataFiles EXCEPT ![p] = f]
    /\ UNCHANGED <<clock, nAdvance, cfgFile, DATASETS_CONFIG_PATH, REQUIRE_DATASETS,
                   cfgCache, dsCache, widget, proc>>

\* DatasetWidget.load_datasets(), as select() calls it in a render pass
DatasetWidget_load_datasets ==
    /\ proc.alive
    /\ \E c \in {call_load_dataset_configs} :
           IF c.exit
           THEN /\ proc' = [alive |-> FALSE, exitCode |-> EXIT_CODE]
                /\ last' = ConfigsCall("load_datasets", c)
                /\ UNCHANGED <<cfgCache, dsCache, widget, DATASETS_CONFIG_PATH>>
           ELSE \E d \in {IF ~c.value.none /\ Len(c.value.configs) > 0
                           THEN call_load_datasets(c.value.digest, c.value.configs)
                           ELSE [hit |-> FALSE, ok |-> TRUE, error |-> "", datasets |-> <<>>,
                                 loaded |-> 0, cache |-> dsCache]} :
                LET rec == ConfigsCall("load_datasets", c)
                    called == ~c.value.none /\ Len(c.value.configs) > 0
                    sizes == sizes_of(d.datasets)
                    changed == widget._sizes # sizes \/ widget._digest # c.value.digest
                IN  /\ cfgCache' = c.cache
                    /\ DATASETS_CONFIG_PATH' = c.path
                    /\ dsCache' = d.cache
                    /\ widget' = IF d.ok /\ changed
                                 THEN [_sizes |-> sizes, _digest |-> c.value.digest]
                                 ELSE widget
                    /\ last' = [rec EXCEPT
                          !.dsCalled = called,
                          !.dsHad = (dsCache # <<>>),
                          !.dsPrevKey = IF dsCache # <<>> THEN dsCache[1].key ELSE EmptyDigest,
                          !.dsAge = IF dsCache # <<>> THEN clock - dsCache[1].stored ELSE 0,
                          !.dsPrev = IF dsCache # <<>> THEN dsCache[1].value.datasets ELSE <<>>,
                          !.dsHit = d.hit, !.raised = ~d.ok, !.error = d.error,
                          !.returned = d.ok, !.datasets = d.datasets,
                          !.logged = (d.ok /\ changed)]
                    /\ UNCHANGED proc
    /\ UNCHANGED <<clock, nAdvance, cfgFile, dataFiles, REQUIRE_DATASETS>>

\* DatasetWidget.has_data, which reads DatasetWidget.size
DatasetWidget_has_data ==
    /\ proc.alive
    /\ \E c \in {call_load_dataset_configs} :
       LET rec == ConfigsCall("has_data", c)
           size == IF ~c.value.none /\ Len(c.value.configs) > 0
                   THEN Len(c.value.configs) ELSE 0
       IN  IF c.exit
           THEN /\ proc' = [alive |-> FALSE, exitCode |-> EXIT_CODE]
                /\ last' = rec
                /\ UNCHANGED <<cfgCache, DATASETS_CONFIG_PATH>>
           ELSE /\ cfgCache' = c.cache
                /\ DATASETS_CONFIG_PATH' = c.path
                /\ last' = [rec EXCEPT !.returned = TRUE, !.size = size,
                                       !.has_data = (size > 0)]
                /\ UNCHANGED proc
    /\ UNCHANGED <<clock, nAdvance, cfgFile, dataFiles, REQUIRE_DATASETS, dsCache, widget>>

QueryIdle == qIn = <<>> /\ qOut = <<>>

ConfigIdle == fIn = <<>> /\ fOut = <<>>

LoadIdle == lIn = <<>> /\ lOut = <<>>

PoolIdle == pool = <<>>

PerfIdle == perf = <<>> /\ sess = <<>>

CallIdle == cIn = <<>> /\ cOut = <<>>

RestIdle == PoolIdle /\ PerfIdle /\ CallIdle

Init == CacheInit /\ QueryIdle /\ ConfigIdle /\ LoadIdle /\ RestIdle

Next ==
    \/ AdvanceClock /\ UNCHANGED <<queryVars, configVars, loadVars, restVars>>
    \/ WriteConfigFile /\ UNCHANGED <<queryVars, configVars, loadVars, restVars>>
    \/ DeleteConfigFile /\ UNCHANGED <<queryVars, configVars, loadVars, restVars>>
    \/ WriteDataFile /\ UNCHANGED <<queryVars, configVars, loadVars, restVars>>
    \/ DatasetWidget_load_datasets /\ UNCHANGED <<queryVars, configVars, loadVars, restVars>>
    \/ DatasetWidget_has_data /\ UNCHANGED <<queryVars, configVars, loadVars, restVars>>

Spec == Init /\ [][Next]_vars

(***************************************************************************)
(* Claims about the dataset widget's caches (specification Spec).          *)
(***************************************************************************)
\* the call of the latest step ran the body of load_datasets: the dataset files were read
Reloaded == last.op = "load_datasets" /\ last.dsCalled /\ ~last.dsHit

\* the datasets that load_datasets builds from `configs` and the files in `disk`
DatasetsOf(configs, disk) ==
    [i \in 1..Len(configs) |-> [config |-> configs[i], df |-> disk[configs[i].path]]]

\* the configs of the file content that `digest` is the digest of
ConfigsOfDigest(digest) == load_dataset_configs_from_path(File(digest[2])).configs

\* C1 as stated: DatasetWidget.load_datasets reads the dataset files only when the
\* config digest differs from the digest of the previous load; with the digest
\* unchanged the reload is skipped.
C1_ReloadOnlyOnNewDigest ==
    (last.op = "load_datasets" /\ last.dsCalled /\ last.dsHad)
        => (Reloaded <=> last.dsPrevKey # last.cfgValue.digest)

\* C1 as amended: DatasetWidget.load_datasets reads the dataset files only when
\* there is no previous load, the config digest differs from the digest of the
\* previous load, or the previous load is DATASET_CACHE_TTL seconds old or older;
\* with the digest unchanged and the previous load younger than that, the
\* reload is skipped.
C1_ReloadOnNewDigestOrExpiry ==
    (last.op = "load_datasets" /\ last.dsCalled)
        => (Reloaded <=> \/ ~last.dsHad
                         \/ last.dsPrevKey # last.cfgValue.digest
                         \/ last.dsAge >= DATASET_CACHE_TTL)

\* C1's case: the datasets are read again although the digest is the one of the
\* previous load, because that load has expired
C1_Witness ==
    /\ Reloaded
    /\ last.dsHad
    /\ last.dsPrevKey = last.cfgValue.digest
    /\ last.dsAge >= DATASET_CACHE_TTL
    /\ last.returned

\* C2: a call of DatasetWidget.load_datasets that gets a digest other than the one
\* the cached datasets were loaded for reads the dataset files again, and the
\* datasets it returns are those of the configuration with that digest, read from
\* the files as they are at the call.
C2_NewDigestReloads ==
    (/\ last.op = "load_datasets"
     /\ last.returned
     /\ last.dsHad
     /\ last.cfgValue.digest # EmptyDigest
     /\ last.cfgValue.digest # last.dsPrevKey)
        => /\ Len(ConfigsOfDigest(last.cfgValue.digest)) > 0 => Reloaded
           /\ last.datasets = DatasetsOf(ConfigsOfDigest(last.cfgValue.digest), last.disk)

\* C2's case: after a change of the file, a call returns datasets other than the
\* cached ones
C2_Witness ==
    /\ last.op = "load_datasets"
    /\ last.returned
    /\ last.dsHad
    /\ last.cfgValue.digest # EmptyDigest
    /\ last.cfgValue.digest # last.dsPrevKey
    /\ Len(last.datasets) > 0
    /\ last.datasets # last.dsPrev

\* a call of the cached load_dataset_configs was made in the latest step, and
\* the cache held the result of an earlier call
ConfigsCalledAgain == last.op \in {"load_datasets", "has_data"} /\ last.cfgHad

\* C3 as stated: a call within DATASET_CONFIG_CACHE_TTL seconds of the last read
\* returns the cached (configs, load time, digest) without reading the file; a
\* call after the ttl has elapsed reads the file again and recomputes the digest.
C3_RereadAfterTtl ==
    ConfigsCalledAgain
        => /\ last.cfgAge < DATASET_CONFIG_CACHE_TTL
                => last.cfgHit /\ ~last.cfgRead /\ last.cfgValue = last.cfgPrev
           /\ last.cfgAge >= DATASET_CONFIG_CACHE_TTL
                => /\ last.cfgRead
                   /\ last.cfgError = "" => last.cfgValue.digest = Sha256(cfgFile.data)

\* C3 as amended: ... a call after the ttl has elapsed runs load_dataset_configs
\* again: while DATASETS_CONFIG_PATH is set it reads the file again and recomputes
\* the digest; once DATASETS_CONFIG_PATH has been blanked it returns
\* (None, now, b'') without reading any file.
C3_RereadAfterTtlWhilePathSet ==
    ConfigsCalledAgain
        => /\ last.cfgAge < DATASET_CONFIG_CACHE_TTL
                => last.cfgHit /\ ~last.cfgRead /\ last.cfgValue = last.cfgPrev
           /\ (last.cfgAge >= DATASET_CONFIG_CACHE_TTL /\ last.pathBefore # "")
                => /\ last.cfgRead
                   /\ last.cfgError = "" => last.cfgValue.digest = Sha256(cfgFile.data)
           /\ (last.cfgAge >= DATASET_CONFIG_CACHE_TTL /\ last.pathBefore = "")
                => /\ ~last.cfgRead
                   /\ last.cfgValue = ConfigsValue(TRUE, <<>>, last.now, EmptyDigest)

\* C3's case: a call after the ttl reads a changed file and gets a new digest
C3_Witness ==
    /\ ConfigsCalledAgain
    /\ last.cfgAge >= DATASET_CONFIG_CACHE_TTL
    /\ last.cfgRead
    /\ last.cfgError = ""
    /\ last.cfgValue.digest # last.cfgPrev.digest
    /\ last.cfgPrev.digest # EmptyDigest

\* C10: when reading the dataset config fails: with REQUIRE_DATASETS false the
\* error is logged, load_dataset_configs returns (None, now, b''), and the widget
\* reports size 0, has_data False and no datasets; with REQUIRE_DATASETS true the
\* process ends at once with exit code 52 and nothing is returned or cached.
C10_ConfigReadFailure ==
    /\ (last.cfgRead /\ last.cfgError # "")
        => IF REQUIRE_DATASETS
           THEN /\ ~proc.alive
                /\ proc.exitCode = 52
                /\ last.exited
                /\ ~last.returned
                /\ cfgCache = <<>> \/ cfgCache[1].value = last.cfgPrev
           ELSE /\ proc.alive
                /\ last.cfgLog \in {"info", "warning"}
                /\ last.cfgValue = ConfigsValue(TRUE, <<>>, last.now, EmptyDigest)
                /\ last.returned
                /\ last.op = "has_data" => last.size = 0 /\ ~last.has_data
                /\ last.op = "load_datasets" => last.datasets = <<>>
    /\ (last.op = "has_data" /\ last.returned /\ last.cfgValue.none)
        => last.size = 0 /\ ~last.has_data
    /\ ~proc.alive => last.cfgRead /\ last.cfgError # "" /\ REQUIRE_DATASETS

\* C10's case: the file is no TOML, REQUIRE_DATASETS is false, has_data is asked
C10_Witness ==
    /\ last.op = "has_data"
    /\ last.cfgRead
    /\ last.cfgError = "TOMLDecodeError"
    /\ ~REQUIRE_DATASETS
    /\ last.size = 0
    /\ ~last.has_data

\* C10's other case: the file is missing, REQUIRE_DATASETS is true, the process is gone
C10_WitnessExit ==
    /\ last.cfgRead
    /\ last.cfgError = "FileNotFoundError"
    /\ REQUIRE_DATASETS
    /\ proc = [alive |-> FALSE, exitCode |-> 52]

(***************************************************************************)
(* widgets/types.py: QueryParams.  A query value is a sequence of          *)
(* one-character strings.  A datetime is [day, hour, minute, second,       *)
(* microsecond, tzinfo]: day counts the days since 1970-01-01, tzinfo is   *)
(* "UTC" or "None" (naive).                                                *)
(***************************************************************************)
Digits == <<"0", "1", "2", "3", "4", "5", "6", "7", "8", "9">>

DigitValue(c) == (CHOOSE i \in 1..10 : Digits[i] = c) - 1

IsDigit(c) == \E i \in 1..10 : Digits[i] = c

RECURSIVE str(_)
\* str(n) for an integer n >= 0: its decimal digits
str(n) == IF n < 10 THEN <<Digits[n + 1]>> ELSE str(n \div 10) \o <<Digits[(n % 10) + 1]>>

RECURSIVE int_digits(_, _)
\* the value of the digits of `chars` up to the n-th
int_digits(chars, n) ==
    IF n = 0 THEN 0 ELSE 10 * int_digits(chars, n - 1) + DigitValue(chars[n])

\* int(chars): [ok, value]; ok is FALSE where int() raises ValueError.  A sign is
\* read, and what follows must be decimal digits.
int(chars) ==
    LET signed == Len(chars) >= 1 /\ chars[1] \in {"-", "+"}
        body == IF signed THEN SubSeq(chars, 2, Len(chars)) ELSE chars
        ok == Len(body) >= 1 /\ \A i \in 1..Len(body) : IsDigit(body[i])
        magnitude == IF ok THEN int_digits(body, Len(body)) ELSE 0
    IN  [ok |-> ok,
         value |-> IF signed /\ chars[1] = "-" THEN 0 - magnitude ELSE magnitude]

\* value.count(c)
count(value, c) == Cardinality({i \in 1..Len(value) : value[i] = c})

\* value.partition(c): <<left, right>> around the first c (there is one)
partition(value, c) ==
    LET k == CHOOSE i \in 1..Len(value) :
                 value[i] = c /\ \A j \in 1..(i - 1) : value[j] # c
    IN  <<SubSeq(value, 1, k - 1), SubSeq(value, k + 1, Len(value))>>

\* timestamp of 1990-01-01, minimum date in select_datetime()
min_timestamp == 631152000

\* QueryParams._as_range(value) without the comparison to min_timestamp
as_range_any_timestamp(value) ==
    IF count(value, "-") # 1 THEN [none |-> TRUE, start |-> 0, end |-> 0]
    ELSE LET left == partition(value, "-")[1]
             right == partition(value, "-")[2]
         IN  IF ~int(left).ok \/ ~int(right).ok
             THEN [none |-> TRUE, start |-> 0, end |-> 0]
             ELSE [none |-> FALSE, start |-> int(left).value, end |-> int(right).value]

\* QueryParams._as_range(value): [none, start, end]
as_range(value) ==
    IF count(value, "-") # 1 THEN [none |-> TRUE, start |-> 0, end |-> 0]
    ELSE LET left == partition(value, "-")[1]
             right == partition(value, "-")[2]
         IN  IF ~int(left).ok \/ ~int(right).ok
             THEN [none |-> TRUE, start |-> 0, end |-> 0]
             ELSE IF int(left).value >= min_timestamp /\ int(right).value >= min_timestamp
             THEN [none |-> FALSE, start |-> int(left).value, end |-> int(right).value]
             ELSE [none |-> TRUE, start |-> 0, end |-> 0]

\* datetime.fromtimestamp(ts, tz): in UTC when tz is "UTC"; the naive local time
\* of a process whose zone is `offset` seconds east of UTC when tz is "None"
fromtimestamp(ts, tz, offset) ==
    LET t == IF tz = "UTC" THEN ts ELSE ts + offset
    IN  [day |-> t \div 86400, hour |-> (t % 86400) \div 3600,
         minute |-> (t % 3600) \div 60, second |-> t % 60, microsecond |-> 0,
         tzinfo |-> tz]

\* int(n / d) in place of round(n / d): the fraction is cut off
round_down(n, d) == n \div d

\* round(n / d) for integers n >= 0, d > 0: to the nearest integer, a half to
\* the even neighbour
round(n, d) ==
    LET q == n \div d
        r == n % d
    IN  IF 2 * r < d THEN q
        ELSE IF 2 * r > d THEN q + 1
        ELSE IF q % 2 = 0 THEN q ELSE q + 1

\* dt + timedelta(seconds=delta), for a dt on the minute and delta >= 0
add_seconds(dt, delta) ==
    LET total == dt.hour * 3600 + dt.minute * 60 + dt.second + delta
    IN  [dt EXCEPT !.day = dt.day + total \div 86400,
                   !.hour = (total % 86400) \div 3600,
                   !.minute = (total % 3600) \div 60,
                   !.second = total % 60]

\* _convert(ts) of QueryParams.convert_timestamps
convert(ts, tz, offset) ==
    LET dt == fromtimestamp(ts, tz, offset)
        \* the microsecond of an integer timestamp is 0
        seconds == 60 * dt.minute + dt.second
        delta == round(seconds, 300) * 300
    IN  add_seconds([dt EXCEPT !.minute = 0, !.second = 0, !.microsecond = 0], delta)

\* QueryParams.convert_timestamps(start, end, utc=utc)
convert_timestamps(start, end, utc, offset) ==
    LET tz == IF utc THEN "UTC" ELSE "None"
    IN  <<convert(start, tz, offset), convert(end, tz, offset)>>

\* dt.replace(tzinfo=None), had it kept the tzinfo
keep_tzinfo(dt) == dt

\* dt.replace(tzinfo=None)
replace_tzinfo_none(dt) == [dt EXCEPT !.tzinfo = "None"]

HexDigits == <<"0", "1", "2", "3", "4", "5", "6", "7", "8", "9", "A", "B", "C", "D", "E", "F">>

HexValue(c) == (CHOOSE i \in 1..16 : HexDigits[i] = c) - 1

\* base64.b16decode(chars) reading one digit a byte
b16decode_low_digit(chars) ==
    IF Len(chars) % 2 = 0
       /\ \A i \in 1..Len(chars) : \E k \in 1..16 : HexDigits[k] = chars[i]
    THEN [ok |-> TRUE,
          bytes |-> [i \in 1..(Len(chars) \div 2) |-> HexValue(chars[2 * i])]]
    ELSE [ok |-> FALSE, bytes |-> <<>>]

\* base64.b16decode(chars): [ok, bytes]; upper-case hex digits, two a byte
b16decode(chars) ==
    IF Len(chars) % 2 = 0
       /\ \A i \in 1..Len(chars) : \E k \in 1..16 : HexDigits[k] = chars[i]
    THEN [ok |-> TRUE,
          bytes |-> [i \in 1..(Len(chars) \div 2) |->
                        16 * HexValue(chars[2 * i - 1]) + HexValue(chars[2 * i])]]
    ELSE [ok |-> FALSE, bytes |-> <<>>]

NoDatetime == [day |-> 0, hour |-> 0, minute |-> 0, second |-> 0, microsecond |-> 0,
               tzinfo |-> ""]

\* the data field of a QueryParams: [kind, range, int, str, bytes]
Data(kind) ==
    [kind |-> kind, range |-> <<NoDatetime, NoDatetime>>, int |-> 0, str |-> <<>>,
     bytes |-> <<>>]

\* the `if "data" in kwargs` block of QueryParams.make, for the query value `value`
make_data(value) ==
    IF Len(value) >= 2 /\ SubSeq(value, 1, 2) = <<"0", "x">>
    THEN LET b == b16decode(SubSeq(value, 3, Len(value)))
         IN  IF b.ok THEN [Data("bytes") EXCEPT !.bytes = b.bytes] ELSE Data("error")
    ELSE LET r == as_range(value)
         IN  IF r.none
             THEN IF int(value).ok THEN [Data("int") EXCEPT !.int = int(value).value]
                  ELSE [Data("str") EXCEPT !.str = value]
             ELSE LET c == convert_timestamps(r.start, r.end, TRUE, 0)
                  IN  [Data("range") EXCEPT
                          !.range = <<replace_tzinfo_none(c[1]), replace_tzinfo_none(c[2])>>]

UpperLetters ==
    <<"A", "B", "C", "D", "E", "F", "G", "H", "I", "J", "K", "L", "M", "N", "O", "P", "Q",
      "R", "S", "T", "U", "V", "W", "X", "Y", "Z">>

LowerLetters ==
    <<"a", "b", "c", "d", "e", "f", "g", "h", "i", "j", "k", "l", "m", "n", "o", "p", "q",
      "r", "s", "t", "u", "v", "w", "x", "y", "z">>

\* value.lower()
lower(value) ==
    [i \in 1..Len(value) |->
        IF \E k \in 1..26 : UpperLetters[k] = value[i]
        THEN LowerLetters[CHOOSE k \in 1..26 : UpperLetters[k] = value[i]]
        ELSE value[i]]

\* a keyword argument that was not given: kwargs.get(parameter) is None
Absent == <<"<absent>">>

\* QueryParams._as_bool(kwargs, parameter), for value = kwargs.get(parameter):
\* [raised, result], result one of "None", "True", "False"
as_bool(value) ==
    IF value = Absent THEN [raised |-> FALSE, result |-> "None"]
    ELSE IF lower(value) \in {<<"1">>, <<"t", "r", "u", "e">>}
    THEN [raised |-> FALSE, result |-> "True"]
    ELSE IF lower(value) \in {<<"0">>, <<"f", "a", "l", "s", "e">>}
    THEN [raised |-> FALSE, result |-> "False"]
    ELSE [raised |-> TRUE, result |-> "None"]

\* the loop over ("show_removed",) of QueryParams.make: `b := cls._as_bool(...)
\* is not None` binds b to the outcome of the comparison, and kwargs[parameter]
\* is set to b when b is true.  [raised, show_removed]; a parameter that is
\* left out of kwargs takes the default of the field, None.
make_show_removed(value) ==
    LET bound(r) ==
            LET b == r.result # "None"
            IN  IF r.raised THEN [raised |-> TRUE, show_removed |-> "None"]
                ELSE IF b THEN [raised |-> FALSE, show_removed |-> "True"]
                ELSE [raised |-> FALSE, show_removed |-> "None"]
    IN  bound(as_bool(value))

\* QueryParams.make(**kwargs) for kwargs = [data, show_removed]:
\* [raised, data, show_removed]; raised names the exception, "" for none
make(kwargs) ==
    LET made(sr, d) ==
            IF sr.raised
            THEN [raised |-> "ValueError", data |-> Data("none"), show_removed |-> "None"]
            ELSE IF d.kind = "error"
            THEN [raised |-> "binascii.Error", data |-> d, show_removed |-> "None"]
            ELSE [raised |-> "", data |-> d, show_removed |-> sr.show_removed]
    IN  made(make_show_removed(kwargs.show_removed),
             IF kwargs.data = Absent THEN Data("none") ELSE make_data(kwargs.data))

(***************************************************************************)
(* The specification of the query parameter codec: an input is drawn, and  *)
(* the operation it names is applied to it.                                *)
(***************************************************************************)
\* 2019-05-01 00:00:00 UTC, the start of the range in the tests
TEST_START == 1556668800

MaxStride == 26

\* timestamps every 150 s from 23:57:30 on the day before TEST_START, and
\* some in between and before min_timestamp
Timestamps ==
    {TEST_START - 150 + 150 * k : k \in 0..MaxStride}
        \cup {TEST_START - 20, TEST_START + 31, TEST_START + 149, TEST_START + 151,
              TEST_START + 3580}
        \cup {0, 300, min_timestamp - 1, min_timestamp}

\* the zones of the process, in seconds east of UTC
LocalOffsets == {-18000, 0, 19800}

\* query values of every form, and some that are almost of a form
DataValues ==
    {<<"0", "x", "4", "1", "4", "2">>, <<"0", "x">>, <<"0", "x", "a", "b">>,
     <<"0", "x", "A", "B", "C">>, <<"0", "x", "1", "-", "2">>, <<"0", "X", "4", "1">>,
     str(TEST_START) \o <<"-">> \o str(TEST_START + 300),
     str(min_timestamp) \o <<"-">> \o str(min_timestamp),
     str(min_timestamp - 1) \o <<"-">> \o str(min_timestamp),
     str(TEST_START) \o <<"-">> \o str(10),
     <<"5", "-", "1", "0">>, <<"7">>, <<"0">>, <<"-", "5">>, <<"+", "3">>, <<"1", "2">>,
     <<"a", "b", "c">>, <<"a", "-", "b">>, <<"1", "-", "2", "-", "3">>, <<"5", "-">>,
     <<"-">>, <<>>, <<"7", "x">>}

MaxBytes == 2

ByteValues == {0, 10, 65, 171, 255}

\* base64.b16encode(bytes): two upper-case hex digits a byte
b16encode(bytes) ==
    [i \in 1..(2 * Len(bytes)) |->
        IF i % 2 = 1 THEN HexDigits[(bytes[(i + 1) \div 2] \div 16) + 1]
        ELSE HexDigits[(bytes[i \div 2] % 16) + 1]]

ShowRemovedValues ==
    {Absent, <<"1">>, <<"0">>, <<"t", "r", "u", "e">>, <<"T", "r", "u", "e">>,
     <<"T", "R", "U", "E">>, <<"t", "R", "u", "E">>, <<"f", "a", "l", "s", "e">>,
     <<"F", "a", "l", "s", "e">>, <<"F", "A", "L", "S", "E">>, <<"y", "e", "s">>,
     <<"n", "o">>, <<>>, <<"2">>, <<"t", "r", "u", "e", "1">>}

QueryInputs ==
    {[op |-> "make", start |-> a, end |-> b, utc |-> TRUE, offset |-> 0,
      data |-> str(a) \o <<"-">> \o str(b), show_removed |-> Absent, blob |-> <<>>] :
          a \in Timestamps, b \in Timestamps}
        \cup {[op |-> "convert_timestamps", start |-> a, end |-> a + d, utc |-> u,
               offset |-> IF u THEN 0 ELSE o, data |-> <<>>, show_removed |-> Absent,
               blob |-> <<>>] :
                   a \in Timestamps, d \in {0, 150}, u \in BOOLEAN, o \in LocalOffsets}
        \cup {[op |-> "make_value", start |-> 0, end |-> 0, utc |-> TRUE, offset |-> 0,
               data |-> v, show_removed |-> Absent, blob |-> <<>>] : v \in DataValues}
        \cup {[op |-> "make_bytes", start |-> 0, end |-> 0, utc |-> TRUE, offset |-> 0,
               data |-> <<"0", "x">> \o b16encode(b), show_removed |-> Absent,
               blob |-> b] : b \in SeqsUpTo(ByteValues, MaxBytes)}
        \cup {[op |-> "make_show_removed", start |-> 0, end |-> 0, utc |-> TRUE,
               offset |-> 0, data |-> v, show_removed |-> r, blob |-> <<>>] :
                   v \in {Absent, <<"7">>}, r \in ShowRemovedValues}

\* the operations of an input that call QueryParams.make
MakeOps == {"make", "make_value", "make_bytes", "make_show_removed"}

NoOutput ==
    [done |-> FALSE, data |-> Data("none"), pair |-> <<NoDatetime, NoDatetime>>,
     show_removed |-> "None", raised |-> ""]

CacheIdle ==
    /\ clock = 0
    /\ nAdvance = 0
    /\ cfgFile = Missing
    /\ dataFiles = [p \in DataPaths |-> NoFrame]
    /\ DATASETS_CONFIG_PATH = ""
    /\ REQUIRE_DATASETS = FALSE
    /\ cfgCache = <<>>
    /\ dsCache = <<>>
    /\ widget = [_sizes |-> {}, _digest |-> EmptyDigest]
    /\ proc = [alive |-> FALSE, exitCode |-> 0]
    /\ last = NoCall

InitQuery ==
    /\ qIn \in QueryInputs
    /\ qOut = NoOutput
    /\ CacheIdle /\ ConfigIdle /\ LoadIdle /\ RestIdle

\* QueryParams.make(data=qIn.data, show_removed=qIn.show_removed), an Absent
\* argument left out
QueryParams_make ==
    /\ qIn.op \in MakeOps
    /\ ~qOut.done
    /\ \E m \in {make([data |-> qIn.data, show_removed |-> qIn.show_removed])} :
           qOut' = [NoOutput EXCEPT !.done = TRUE, !.data = m.data,
                                    !.show_removed = m.show_removed,
                                    !.raised = m.raised]
    /\ UNCHANGED qIn

\* QueryParams.convert_timestamps(qIn.start, qIn.end, utc=qIn.utc)
QueryParams_convert_timestamps ==
    /\ qIn.op = "convert_timestamps"
    /\ ~qOut.done
    /\ qOut' = [NoOutput EXCEPT
                   !.done = TRUE,
                   !.pair = convert_timestamps(qIn.start, qIn.end, qIn.utc, qIn.offset)]
    /\ UNCHANGED qIn

NextQuery ==
    \/ QueryParams_make /\ UNCHANGED <<cacheVars, configVars, loadVars, restVars>>
    \/ QueryParams_convert_timestamps /\ UNCHANGED <<cacheVars, configVars, loadVars, restVars>>

SpecQuery == InitQuery /\ [][NextQuery]_vars

(***************************************************************************)
(* Claims about the query parameter codec (specification SpecQuery).       *)
(***************************************************************************)
\* dt is on a 5-minute boundary: minute divisible by 5, second and microsecond 0
Aligned(dt) == dt.minute % 5 = 0 /\ dt.second = 0 /\ dt.microsecond = 0

\* the seconds from 1970-01-01 00:00:00 to dt, read on dt's own clock
WallSeconds(dt) == dt.day * 86400 + dt.hour * 3600 + dt.minute * 60 + dt.second

\* the UNIX timestamp of dt, a naive dt being the local time `offset` east of UTC
Instant(dt, offset) == IF dt.tzinfo = "UTC" THEN WallSeconds(dt) ELSE WallSeconds(dt) - offset

Abs(n) == IF n < 0 THEN 0 - n ELSE n

\* a valid datetime: every field within its range
WellFormed(dt) ==
    dt.hour \in 0..23 /\ dt.minute \in 0..59 /\ dt.second \in 0..59 /\ dt.microsecond = 0

MadeFromPair == qIn.op = "make" /\ qOut.done

\* C4 as stated: for all UNIX-timestamp pairs given as '<start>-<end>', make
\* decodes data to a (start, end) pair whose elements are timezone-naive and on
\* a 5-minute boundary.
C4_EveryPairDecodesAligned ==
    MadeFromPair
        => /\ qOut.data.kind = "range"
           /\ \A i \in 1..2 : qOut.data.range[i].tzinfo = "None" /\ Aligned(qOut.data.range[i])

\* C4 as amended: for all UNIX-timestamp pairs with both timestamps at or after
\* min_timestamp (1990-01-01) given as '<start>-<end>', make decodes data to a
\* (start, end) pair whose elements are timezone-naive and on a 5-minute
\* boundary, each within 150 s of its timestamp; a pair with a timestamp before
\* min_timestamp is not decoded to a pair.
C4_PairFrom1990DecodesAligned ==
    MadeFromPair
        => IF qIn.start >= min_timestamp /\ qIn.end >= min_timestamp
           THEN /\ qOut.data.kind = "range"
                /\ \A i \in 1..2 :
                      /\ qOut.data.range[i].tzinfo = "None"
                      /\ Aligned(qOut.data.range[i])
                      /\ WellFormed(qOut.data.range[i])
                /\ Abs(WallSeconds(qOut.data.range[1]) - qIn.start) <= 150
                /\ Abs(WallSeconds(qOut.data.range[2]) - qIn.end) <= 150
           ELSE qOut.data.kind = "str" /\ qOut.data.str = qIn.data

\* C4's case: a pair whose start is rounded down and whose end is rounded up
\* across midnight has been decoded
C4_Witness ==
    /\ MadeFromPair
    /\ qIn.start = TEST_START + 31
    /\ qIn.end = TEST_START - 20
    /\ qOut.data.kind = "range"
    /\ WallSeconds(qOut.data.range[1]) = TEST_START
    /\ WallSeconds(qOut.data.range[2]) = TEST_START

Converted == qIn.op = "convert_timestamps" /\ qOut.done

\* the input of the i-th element of the converted pair
InputOf(i) == IF i = 1 THEN qIn.start ELSE qIn.end

\* C5: convert_timestamps rounds each timestamp to the nearest multiple of 300 s:
\* the result is a valid datetime on a 5-minute boundary at most 150 s from the
\* input instant, an input on a 5-minute boundary comes back unchanged, and an
\* input that rounds up past the end of its hour gives minute 0 of the next hour,
\* on the next day when the hour was 23.
C5_RoundsToNearest300 ==
    Converted
        => \A i \in 1..2 :
              LET ts == InputOf(i)
                  dt == qOut.pair[i]
                  in == fromtimestamp(ts, dt.tzinfo, qIn.offset)
              IN  /\ WellFormed(dt)
                  /\ Aligned(dt)
                  /\ dt.tzinfo = (IF qIn.utc THEN "UTC" ELSE "None")
                  /\ Instant(dt, qIn.offset) % 300 = 0
                  /\ Abs(Instant(dt, qIn.offset) - ts) <= 150
                  /\ ts % 300 = 0 => Instant(dt, qIn.offset) = ts
                  /\ (in.minute * 60 + in.second > 3450)
                        => /\ dt.minute = 0
                           /\ dt.hour = (in.hour + 1) % 24
                           /\ dt.day = IF in.hour = 23 THEN in.day + 1 ELSE in.day

\* C5's case: 23:59:40 UTC has been rounded up into the next day
C5_Witness ==
    /\ Converted
    /\ qIn.utc
    /\ qIn.start = TEST_START - 20
    /\ qOut.pair[1] = [day |-> TEST_START \div 86400, hour |-> 0, minute |-> 0, second |-> 0,
                       microsecond |-> 0, tzinfo |-> "UTC"]

(***************************************************************************)
(* The specification of the configuration reader: two files are drawn, and *)
(* load_dataset_configs reads the first and then the second.               *)
(***************************************************************************)
PathX == <<"x", ".", "x", "l", "s", "x">>

SectionNames == {"a", "b", "c"}

\* what a line of a configuration file may be: a section with or without a
\* label and with a readable or an unreadable path, a comment, no TOML
ConfigTokens ==
    {Section(n, l, p) : n \in SectionNames, l \in {NoLabel, "a"}, p \in {PathA, PathX}}
        \cup {Comment, Junk}

MaxTokens == 3

ConfigFiles == SeqsUpTo(ConfigTokens, MaxTokens)

\* the second file: the same bytes as the first, the first after a comment
\* line, the first without its first line, the first and one more section
SecondFiles(data) ==
    {data, <<Comment>> \o data, data \o <<SecB>>}
        \cup (IF data = <<>> THEN {} ELSE {Tail(data)})

InitConfig ==
    /\ \E d1 \in ConfigFiles : \E d2 \in SecondFiles(d1) : fIn = <<d1, d2>>
    /\ fOut = <<>>
    /\ CacheIdle /\ QueryIdle /\ LoadIdle /\ RestIdle

\* load_dataset_configs(file, return_digest=True) on the next of the two files
load_dataset_configs_call ==
    /\ Len(fOut) < Len(fIn)
    /\ LET data == fIn[Len(fOut) + 1]
       IN  fOut' = Append(fOut, [data |-> data,
                                 res |-> load_dataset_configs_from_path(File(data))])
    /\ UNCHANGED fIn

NextConfig == load_dataset_configs_call /\ UNCHANGED <<cacheVars, queryVars, loadVars, restVars>>

SpecConfig == InitConfig /\ [][NextConfig]_vars

(***************************************************************************)
(* Claims about the configuration reader (specification SpecConfig).       *)
(***************************************************************************)
\* C6: the digest returned by load_dataset_configs(file, return_digest=True)
\* depends only on the file's bytes: two reads that return give the same digest
\* when the bytes are the same and different digests when the bytes differ.
C6_DigestOfBytesOnly ==
    \A i, j \in 1..Len(fOut) :
        (fOut[i].res.ok /\ fOut[j].res.ok)
            => ((fOut[i].res.digest = fOut[j].res.digest) <=> (fOut[i].data = fOut[j].data))

\* C6's case: two files that differ only by a comment line have been read
C6_Witness ==
    /\ Len(fOut) = 2
    /\ fOut[1].res.ok /\ fOut[2].res.ok
    /\ fOut[1].data = <<SecA>>
    /\ fOut[2].data = <<Comment, SecA>>
    /\ fOut[1].res.configs = fOut[2].res.configs
    /\ fOut[1].res.digest # fOut[2].res.digest

\* C6's other case: the same bytes have been read twice
C6_WitnessSame ==
    /\ Len(fOut) = 2
    /\ fOut[1].res.ok
    /\ fOut[1].data = fOut[2].data
    /\ fOut[1].res.digest = fOut[2].res.digest
    /\ fOut[1].res.digest # EmptyDigest

\* the label that a section resolves to
ResolvedLabel(section) == IF section.label = NoLabel THEN section.name ELSE section.label

\* the sections of the file
SectionsOf(data) == SelectSeq(data, LAMBDA t : t.kind = "section")

\* the file is TOML: no line that is not, no section declared twice
IsToml(data) ==
    /\ \A i \in 1..Len(data) : data[i].kind # "junk"
    /\ \A i, j \in 1..Len(SectionsOf(data)) :
          i # j => SectionsOf(data)[i].name # SectionsOf(data)[j].name

\* section j of secs resolves to the label of an earlier section
RepeatsLabel(secs, j) == \E i \in 1..(j - 1) : ResolvedLabel(secs[i]) = ResolvedLabel(secs[j])

HasDuplicateLabel(data) == \E j \in 1..Len(SectionsOf(data)) : RepeatsLabel(SectionsOf(data), j)

\* the first section that resolves to the label of an earlier section
FirstRepeat(secs) ==
    CHOOSE j \in 1..Len(secs) : RepeatsLabel(secs, j) /\ \A k \in 1..(j - 1) : ~RepeatsLabel(secs, k)

\* the sections before the first repeat have paths with a known format suffix
ValidBeforeRepeat(secs) ==
    \A k \in 1..(FirstRepeat(secs) - 1) : endswith(secs[k].path, <<".", "c", "s", "v">>)

MaxRows == 6

\* the index values of a frame on disk (day numbers)
IndexValues == {11, 12, 2077}

\* the strings of a "date" column on disk
DateStrings == {"2019-05-11", "2019-05-12", "not a date"}

\* what the pandas read function may return: a frame with a DatetimeIndex, a
\* frame with any other index, a frame with a "date" column
LoadFrames ==
    {[kind |-> k, index |-> idx, date |-> <<>>, columns |-> {"x"}] :
        k \in {"DatetimeIndex", "Index"}, idx \in SeqsUpTo(IndexValues, MaxRows)}
        \cup {[kind |-> "RangeIndex", index |-> [i \in 1..Len(d) |-> i - 1], date |-> d,
               columns |-> {"date", "x"}] : d \in SeqsUpTo(DateStrings, MaxRows)}

\* the aggregations of a config, as <<column, aggregation>> pairs
LoadAggregations == {{}, {<<"x", "sum">>}, {<<"y", "sum">>}}

LoadCalls ==
    {[op |-> "dataframe_from_path", path |-> p, index |-> i, verify |-> v, aggregations |-> {}] :
        p \in {PathB, PathX}, i \in {USE_ORIGINAL_INDEX, "date"}, v \in BOOLEAN}
        \cup {[op |-> "load_dataset", path |-> PathB, index |-> i, verify |-> TRUE,
               aggregations |-> a] : i \in {USE_ORIGINAL_INDEX, "date"}, a \in LoadAggregations}

NoLoad == [done |-> FALSE, ok |-> FALSE, error |-> "", df |-> NoFrame, dup |-> NoDuplicates]

InitLoad ==
    /\ \E c \in LoadCalls : \E f \in LoadFrames : lIn = [call |-> c, disk |-> f]
    /\ lOut = NoLoad
    /\ CacheIdle /\ QueryIdle /\ ConfigIdle /\ RestIdle

\* dataframe_from_path(path, index, verify)
dataframe_from_path_call ==
    /\ lIn.call.op = "dataframe_from_path"
    /\ ~lOut.done
    /\ LET r == dataframe_from_path(lIn.call.path, lIn.call.index, lIn.call.verify, lIn.disk)
       IN  lOut' = [done |-> TRUE, ok |-> r.ok, error |-> r.error, df |-> r.df, dup |-> r.dup]
    /\ UNCHANGED lIn

\* load_dataset(config)
load_dataset_call ==
    /\ lIn.call.op = "load_dataset"
    /\ ~lOut.done
    /\ LET config == [label |-> "b", path |-> lIn.call.path, index |-> lIn.call.index,
                      aggregations |-> lIn.call.aggregations]
           r == load_dataset(config, lIn.disk)
       IN  lOut' = [done |-> TRUE, ok |-> r.ok, error |-> r.error, df |-> r.dataset.df,
                    dup |-> r.dup]
    /\ UNCHANGED lIn

NextLoad ==
    \/ dataframe_from_path_call /\ UNCHANGED <<cacheVars, queryVars, configVars, restVars>>
    \/ load_dataset_call /\ UNCHANGED <<cacheVars, queryVars, configVars, restVars>>

SpecLoad == InitLoad /\ [][NextLoad]_vars

(***************************************************************************)
(* Claims about the dataset loader (specification SpecLoad).               *)
(***************************************************************************)
\* the call got a frame from disk and gave it a datetime index
HasDatetimeIndex ==
    /\ lIn.call.path = PathB
    /\ \/ lIn.call.index = USE_ORIGINAL_INDEX /\ lIn.disk.kind = "DatetimeIndex"
       \/ /\ lIn.call.index = "date"
          /\ "date" \in lIn.disk.columns
          /\ \A i \in 1..Len(lIn.disk.date) : lIn.disk.date[i] # "not a date"

\* the day number of a date string that parses
DayOf(s) == IF s = "2019-05-11" THEN 11 ELSE IF s = "2019-05-12" THEN 12 ELSE 0

\* the index of the frame once it has a datetime index
IndexOfFrame ==
    IF lIn.call.index = USE_ORIGINAL_INDEX THEN lIn.disk.index
    ELSE [i \in 1..Len(lIn.disk.date) |-> DayOf(lIn.disk.date[i])]

\* the rows whose index value occurs more than once
DuplicatedRows(index) ==
    {i \in 1..Len(index) : \E j \in 1..Len(index) : j # i /\ index[j] = index[i]}

C8_WitnessMoreThanFive ==
    /\ lOut.done
    /\ lIn.call.op = "load_dataset"
    /\ lIn.call.index = "date"
    /\ lOut.error = "DuplicateIndexError"
    /\ lOut.dup.n_duplicated = 6
    /\ Len(lOut.dup.samples) = 5

\* C9: loading a dataset whose index is not datetime-like fails: with
\* index='__INDEX__' and a frame whose index is not a DatetimeIndex, load_dataset
\* (and dataframe_from_path, with or without verify) raises TypeError 'Bad
\* index'; every frame that is returned has a DatetimeIndex.
C9_BadIndexFails ==
    lOut.done
        => /\ (/\ lIn.call.path = PathB
               /\ lIn.call.index = USE_ORIGINAL_INDEX
               /\ lIn.disk.kind # "DatetimeIndex")
                  => (~lOut.ok /\ lOut.error = "TypeError: Bad index")
           /\ lOut.ok => lOut.df.kind = "DatetimeIndex"

\* C9's case: load_dataset has refused a frame with a plain Index
C9_Witness ==
    /\ lOut.done
    /\ lIn.call.op = "load_dataset"
    /\ lIn.call.index = USE_ORIGINAL_INDEX
    /\ lIn.disk.kind = "Index"
    /\ lIn.disk.index = <<11, 12>>
    /\ lOut.error = "TypeError: Bad index"

\* C9's other case: load_dataset has returned a dataset read from a "date" column
C9_WitnessReturned ==
    /\ lOut.done
    /\ lIn.call.op = "load_dataset"
    /\ lIn.call.index = "date"
    /\ lIn.disk.kind = "RangeIndex"
    /\ lOut.ok
    /\ lOut.df.kind = "DatetimeIndex"
    /\ Len(lOut.df.index) = 2

(***************************************************************************)
(* The specification of the thread pool of load_datasets: executor.map     *)
(* submits one future per config, two workers take them from the queue in  *)
(* order and run _load_dataset, list() collects the results, and the       *)
(* `with` block shuts the executor down.                                   *)
(***************************************************************************)
max_workers == 2

MaxConfigs == 3

\* the configs that a batch is made of: labels are distinct, paths need not be
PoolConfigSet ==
    {DatasetConfig("a", PathA), DatasetConfig("b", PathB), DatasetConfig("c", PathA),
     DatasetConfig("d", PathB)}

\* _cfgs: from one to MaxConfigs configs with distinct labels (`if configs:`)
PoolBatches ==
    {c \in SeqsUpTo(PoolConfigSet, MaxConfigs) :
        Len(c) > 0 /\ \A i, j \in 1..Len(c) : i # j => c[i] # c[j]}

\* what a dataset file may hold: one of two good frames, a frame with a
\* repeated index value, a frame without a DatetimeIndex
PoolFrames ==
    {Frame(<<11>>), Frame(<<12>>), Frame(<<11, 11>>),
     [kind |-> "Index", index |-> <<11>>, date |-> <<>>, columns |-> {"x"}]}

\* a future that holds no result yet
NoResult ==
    [ok |-> FALSE, error |-> "", dataset |-> [config |-> NoConfig, df |-> NoFrame],
     dup |-> NoDuplicates]

NoOutcome == [status |-> "none", error |-> "", datasets |-> <<>>]

InitPool ==
    /\ clock = 0
    /\ nAdvance = 0
    /\ cfgFile = Missing
    /\ dataFiles \in [DataPaths -> PoolFrames]
    /\ DATASETS_CONFIG_PATH = ""
    /\ REQUIRE_DATASETS = FALSE
    /\ cfgCache = <<>>
    /\ dsCache = <<>>
    /\ widget = [_sizes |-> {}, _digest |-> EmptyDigest]
    /\ proc = [alive |-> TRUE, exitCode |-> 0]
    /\ last = NoCall
    /\ \E c \in PoolBatches :
          pool = [pc |-> "call", cfgs |-> c, digest |-> Sha256(c), futures |-> <<>>,
                  taken |-> 0, worker |-> [w \in 1..max_workers |-> 0], finished |-> <<>>,
                  next |-> 1, collected |-> <<>>, failed |-> FALSE, error |-> "",
                  out |-> NoOutcome]
    /\ QueryIdle /\ ConfigIdle /\ LoadIdle /\ PerfIdle /\ CallIdle

\* executor.map(_load_dataset, _cfgs): one future per config is submitted, in
\* the order of _cfgs, before any result is asked for
executor_map ==
    /\ pool.pc = "call"
    /\ pool' = [pool EXCEPT
                   !.pc = "collect",
                   !.futures = [i \in 1..Len(pool.cfgs) |->
                                    [state |-> "PENDING", by |-> 0, res |-> NoResult]]]

\* a worker thread takes the next work item from the queue; the item of a
\* cancelled future is dropped
worker_take(w) ==
    /\ pool.pc \in {"collect", "exit"}
    /\ pool.worker[w] = 0
    /\ pool.taken < Len(pool.futures)
    /\ LET i == pool.taken + 1
       IN  IF pool.futures[i].state = "CANCELLED"
           THEN pool' = [pool EXCEPT !.taken = i]
           ELSE pool' = [pool EXCEPT !.taken = i, !.worker[w] = i,
                                     !.futures[i].state = "RUNNING",
                                     !.futures[i].by = w]

\* the worker's _load_dataset(cfg) ends: the future gets its result or exception
worker_finish(w) ==
    /\ pool.worker[w] # 0
    /\ LET i == pool.worker[w]
           cfg == pool.cfgs[i]
       IN  pool' = [pool EXCEPT
                       !.worker[w] = 0,
                       !.futures[i] = [state |-> "FINISHED", by |-> w,
                                       res |-> load_dataset(cfg, dataFiles[cfg.path])],
                       !.finished = Append(@, i)]

\* fs.pop().result(), had the futures been ordered by completion
result_of_finished(p, k) == p.futures[p.finished[k]].res

\* fs.pop().result(): the result that the k-th submitted future holds
result_of(p, k) == p.futures[k].res

\* the finally-clause of executor.map's generator: the futures after the k-th
\* that have not started are cancelled
cancel_rest(futures, k) ==
    [i \in 1..Len(futures) |->
        IF i > k /\ futures[i].state = "PENDING"
        THEN [futures[i] EXCEPT !.state = "CANCELLED"]
        ELSE futures[i]]

\* list(...) over a failed result, had it gone on to the next future
yield_or_skip(p, res) ==
    IF res.ok
    THEN [p EXCEPT !.collected = Append(@, res.dataset), !.next = @ + 1,
                   !.pc = IF p.next = Len(p.cfgs) THEN "exit" ELSE "collect"]
    ELSE [p EXCEPT !.next = @ + 1,
                   !.pc = IF p.next = Len(p.cfgs) THEN "exit" ELSE "collect"]

\* list(...) over the result of the next future: a dataset is appended, an
\* exception is raised out of the generator and out of the `with` block
yield_or_raise(p, res) ==
    IF res.ok
    THEN [p EXCEPT !.collected = Append(@, res.dataset), !.next = @ + 1,
                   !.pc = IF p.next = Len(p.cfgs) THEN "exit" ELSE "collect"]
    ELSE [p EXCEPT !.failed = TRUE, !.error = res.error, !.pc = "exit",
                   !.futures = cancel_rest(@, p.next)]

\* datasets = list(executor.map(...)), one future at a time: the main thread
\* waits for the next future in submission order
list_next ==
    /\ pool.pc = "collect"
    /\ pool.futures[pool.next].state = "FINISHED"
    /\ pool' = yield_or_raise(pool, result_of(pool, pool.next))
    /\ UNCHANGED dsCache

\* the end of the `with` block, executor.shutdown(wait=True), once the workers
\* have emptied the queue; then load_datasets returns (and cache_resource
\* stores what it returned) or the exception leaves it
executor_exit ==
    /\ pool.pc = "exit"
    /\ pool.taken = Len(pool.futures)
    /\ \A w \in 1..max_workers : pool.worker[w] = 0
    /\ IF pool.failed
       THEN /\ pool' = [pool EXCEPT !.pc = "done",
                                    !.out = [status |-> "raised", error |-> pool.error,
                                             datasets |-> <<>>]]
            /\ UNCHANGED dsCache
       ELSE /\ pool' = [pool EXCEPT !.pc = "done",
                                    !.out = [status |-> "returned", error |-> "",
                                             datasets |-> pool.collected]]
            /\ dsCache' = <<[key |-> pool.digest,
                             value |-> [datasets |-> pool.collected, loaded |-> clock],
                             stored |-> clock]>>

poolRest == <<clock, nAdvance, cfgFile, dataFiles, DATASETS_CONFIG_PATH, REQUIRE_DATASETS,
              cfgCache, widget, proc, last, queryVars, configVars, loadVars, perfVars,
              callVars>>

NextPool ==
    \/ executor_map /\ UNCHANGED <<dsCache, poolRest>>
    \/ (\E w \in 1..max_workers : worker_take(w)) /\ UNCHANGED <<dsCache, poolRest>>
    \/ (\E w \in 1..max_workers : worker_finish(w)) /\ UNCHANGED <<dsCache, poolRest>>
    \/ list_next /\ UNCHANGED poolRest
    \/ executor_exit /\ UNCHANGED poolRest

SpecPool == InitPool /\ [][NextPool]_vars

(***************************************************************************)
(* Claims about the thread pool of load_datasets (specification SpecPool). *)
(***************************************************************************)
\* the dataset d was loaded from the config cfg: it carries the config and the
\* frame of the file at the config's path
LoadedFrom(d, cfg) == d.config = cfg /\ d.df = dataFiles[cfg.path]

\* C11: for every interleaving of the two worker threads, load_datasets returns
\* the datasets in submission order: the i-th dataset collected, and the i-th
\* dataset returned, was loaded from the i-th config, whichever worker finished
\* first; what is returned has one dataset per config.
C11_SubmissionOrder ==
    /\ \A i \in 1..Len(pool.collected) : LoadedFrom(pool.collected[i], pool.cfgs[i])
    /\ pool.out.status = "returned"
          => /\ Len(pool.out.datasets) = Len(pool.cfgs)
             /\ \A i \in 1..Len(pool.cfgs) : LoadedFrom(pool.out.datasets[i], pool.cfgs[i])

\* C11's case: the second config's load finished before the first's, on files
\* that differ, and load_datasets has returned
C11_Witness ==
    /\ pool.pc = "done"
    /\ pool.out.status = "returned"
    /\ Len(pool.cfgs) = 3
    /\ pool.finished = <<2, 1, 3>>
    /\ pool.cfgs[1].path # pool.cfgs[2].path
    /\ dataFiles[PathA] # dataFiles[PathB]

\* the file is one that load_dataset refuses
BadFrame(f) ==
    \/ f.kind # "DatetimeIndex"
    \/ \E i, j \in 1..Len(f.index) : i # j /\ f.index[i] = f.index[j]

\* the configs whose read fails
FailingConfigs == {i \in 1..Len(pool.cfgs) : BadFrame(dataFiles[pool.cfgs[i].path])}

\* C12: if reading any one dataset fails, load_datasets fails for the whole
\* batch: nothing is ever stored in the cache, and when the call ends it has
\* raised the error of a failed read (the first in submission order) and
\* returned no datasets, whichever worker failed and however many other reads
\* succeeded.
C12_BatchFails ==
    FailingConfigs # {}
        => /\ dsCache = <<>>
           /\ pool.out.status # "returned"
           /\ pool.out.datasets = <<>>
           /\ pool.pc = "done"
                 => LET i == CHOOSE i \in FailingConfigs : \A j \in FailingConfigs : i <= j
                    IN  /\ pool.out.status = "raised"
                        /\ pool.out.error = pool.futures[i].res.error
                        /\ pool.out.error \in {"DuplicateIndexError", "TypeError: Bad index"}

\* C12's case: the first and the third read succeeded, the second failed on
\* the second worker, and load_datasets has raised
C12_Witness ==
    /\ pool.pc = "done"
    /\ pool.out.status = "raised"
    /\ Len(pool.cfgs) = 3
    /\ FailingConfigs = {2}
    /\ pool.futures[2].by = 2
    /\ pool.futures[1].res.ok
    /\ pool.futures[3].state = "FINISHED" /\ pool.futures[3].res.ok
    /\ Len(pool.collected) = 1

(***************************************************************************)
(* widgets/display/_performance.py: PerformanceTweaksWidget and the config *)
(* values it adjusts.  A bool is the int it is in Python (False = 0,       *)
(* True = 1).  perf is [pc, limits, env, config, exitCode]: the hard       *)
(* limits captured at startup, the DEFAULT_<key> environment (Unset when   *)
(* absent), the config module's current values.                            *)
(***************************************************************************)
IntKeys == {"FIGURE_DPI", "MAX_SPLITS"}

BoolKeys == {"PLOT_AGGREGATIONS_PER_FOLD", "PLOT_RAW_TIMESERIES"}

PerfKeys == IntKeys \cup BoolKeys

\* os.environ.get(default_key, "").strip() == ""
Unset == -1

\* force_exit(51)
HARD_LIMIT_EXIT_CODE == 51

\* _check_hard_limit(key, max_value=max_value, value=value): TRUE when it
\* returns, FALSE when it shuts the server down
check_hard_limit(max_value, value) == value <= max_value

\* _get_hard_limits(), first call: the defaults of the environment are checked
\* against the limits and written to the config.  [exit, config]
get_hard_limits(limits, env) ==
    [exit |-> \E k \in PerfKeys : env[k] # Unset /\ ~check_hard_limit(limits[k], env[k]),
     config |-> [k \in PerfKeys |-> IF env[k] # Unset THEN env[k] ELSE limits[k]]]

\* the bounds that _select_int gives to st.slider: [min_value, max_value, disabled]
slider_bounds(key, min_value) ==
    IF min_value = perf.limits[key]
    THEN [min_value |-> min_value, max_value |-> min_value + 1, disabled |-> TRUE]
    ELSE [min_value |-> min_value, max_value |-> perf.limits[key], disabled |-> FALSE]

\* _select_int(key, min_value=min_value) when the slider returns `value`:
\* [raised, exit, value].  st.slider raises when the current value is not
\* within its bounds.
select_int(key, min_value, value) ==
    LET b == slider_bounds(key, min_value)
    IN  [raised |-> perf.config[key] < b.min_value \/ perf.config[key] > b.max_value,
         exit |-> ~check_hard_limit(b.max_value, value),
         value |-> Min(value, b.max_value)]

\* _select_bool(key): bool(self._select_int(key, min_value=0))
select_bool(key, value) ==
    [select_int(key, 0, value) EXCEPT !.value = IF @ = 0 THEN 0 ELSE 1]

\* _update_config(): key -> [raised, exit, value], for the submitted slider values
update_config_values(submitted) ==
    [k \in PerfKeys |-> IF k \in BoolKeys THEN select_bool(k, submitted[k])
                        ELSE select_int(k, 1, submitted[k])]

\* sorted(set(keys)): the order in which _update_config shows the sliders
KeyOrder == <<"FIGURE_DPI", "MAX_SPLITS", "PLOT_AGGREGATIONS_PER_FOLD", "PLOT_RAW_TIMESERIES">>

\* how update_config ends for the slider results r: the first slider that
\* raises or shuts the server down decides; otherwise the values are applied
update_config_outcome(r) ==
    LET bad == {i \in 1..Len(KeyOrder) : r[KeyOrder[i]].raised \/ r[KeyOrder[i]].exit}
        first == CHOOSE i \in bad : \A j \in bad : i <= j
    IN  IF bad = {} THEN "applied"
        ELSE IF r[KeyOrder[first]].raised THEN "raised"
        ELSE "exit"

MaxLimit == 2

\* the values that a slider may be made to return
SubmittedValues == 0..(MaxLimit + 1)

\* the config module's values at import: the hard limits
HardLimits ==
    {l \in [PerfKeys -> 0..MaxLimit] :
        /\ \A k \in IntKeys : l[k] >= 1
        /\ \A k \in BoolKeys : l[k] <= 1}

MaxDefaults == 2

\* the DEFAULT_<key> variables: absent, an int, a bool; at most MaxDefaults
\* of them are set
DefaultEnvs ==
    {d \in [PerfKeys -> {Unset} \cup SubmittedValues] :
        /\ \A k \in BoolKeys : d[k] <= 1
        /\ Cardinality({k \in PerfKeys : d[k] # Unset}) <= MaxDefaults}

InitPerf ==
    /\ \E l \in HardLimits : \E d \in DefaultEnvs :
          perf = [pc |-> "start", limits |-> l, env |-> d, config |-> l, exitCode |-> 0,
                  out |-> "none"]
    /\ sess = <<>>
    /\ CacheIdle /\ QueryIdle /\ ConfigIdle /\ LoadIdle /\ PoolIdle /\ CallIdle

\* PerformanceTweaksWidget(): _get_hard_limits() populates the limits
PerformanceTweaksWidget_init ==
    /\ perf.pc = "start"
    /\ \E h \in {get_hard_limits(perf.limits, perf.env)} :
          perf' = IF h.exit
                  THEN [perf EXCEPT !.pc = "exited", !.exitCode = HARD_LIMIT_EXIT_CODE,
                                    !.out = "exit"]
                  ELSE [perf EXCEPT !.pc = "running", !.config = h.config,
                                    !.out = "started"]

\* PerformanceTweaksWidget.update_config() in a render pass in which the
\* sliders return `submitted`
update_config ==
    /\ perf.pc = "running"
    /\ \E submitted \in [PerfKeys -> SubmittedValues] :
       \E r \in {update_config_values(submitted)} :
       \E o \in {update_config_outcome(r)} :
          perf' = IF o = "applied"
                  THEN [perf EXCEPT !.config = [k \in PerfKeys |-> r[k].value], !.out = o]
                  ELSE IF o = "exit"
                  THEN [perf EXCEPT !.pc = "exited", !.exitCode = HARD_LIMIT_EXIT_CODE,
                                    !.out = o]
                  ELSE [perf EXCEPT !.out = o]

NextPerf ==
    \/ PerformanceTweaksWidget_init
          /\ UNCHANGED <<cacheVars, queryVars, configVars, loadVars, poolVars, callVars, sess>>
    \/ update_config
          /\ UNCHANGED <<cacheVars, queryVars, configVars, loadVars, poolVars, callVars, sess>>

SpecPerf == InitPerf /\ [][NextPerf]_vars

(***************************************************************************)
(* Claims about PerformanceTweaksWidget (specification SpecPerf).          *)
(***************************************************************************)
\* C13: PerformanceTweaksWidget lets users reduce but never increase the
\* configured limits: after any sequence of update_config calls with arbitrary
\* submitted slider values, every adjustable config value is less than or
\* equal to the server hard limit captured at startup.
C13_NeverAboveHardLimit == \A k \in PerfKeys : perf.config[k] <= perf.limits[k]

\* where C13 holds: a key whose slider is not locked (its hard limit is not the
\* slider's minimum) never gets a value above its hard limit
C13_UnlockedNeverAboveHardLimit ==
    \A k \in PerfKeys :
        perf.limits[k] # (IF k \in BoolKeys THEN 0 ELSE 1) => perf.config[k] <= perf.limits[k]

\* a lower value has been applied to a key whose slider is not locked
C13_Witness ==
    /\ perf.out = "applied"
    /\ perf.limits["MAX_SPLITS"] = 2
    /\ perf.config["MAX_SPLITS"] = 1
    /\ perf.limits["PLOT_RAW_TIMESERIES"] = 1
    /\ perf.config["PLOT_RAW_TIMESERIES"] = 0

(***************************************************************************)
(* Claims about the forms of the data query value (specification           *)
(* SpecQuery).                                                             *)
(***************************************************************************)
MadeFromValue == qIn.op = "make_value" /\ qOut.done

StartsWith0x(value) == Len(value) >= 2 /\ value[1] = "0" /\ value[2] = "x"

AllDigits(chars) == Len(chars) >= 1 /\ \A i \in 1..Len(chars) : IsDigit(chars[i])

\* the positions of a dash that has a decimal number on either side
PairDashes(value) ==
    {k \in 1..Len(value) :
        /\ value[k] = "-"
        /\ AllDigits(SubSeq(value, 1, k - 1))
        /\ AllDigits(SubSeq(value, k + 1, Len(value)))}

\* value is '<start>-<end>' for two UNIX timestamps
IsTimestampPair(value) == PairDashes(value) # {}

\* both timestamps of the pair are at or after 1990-01-01
PairFrom1990(value) ==
    \E k \in PairDashes(value) :
        /\ int_digits(SubSeq(value, 1, k - 1), k - 1) >= min_timestamp
        /\ int_digits(SubSeq(value, k + 1, Len(value)), Len(value) - k) >= min_timestamp

\* an even number of upper-case base-16 digits
IsBase16(chars) ==
    Len(chars) % 2 = 0 /\ \A i \in 1..Len(chars) : \E k \in 1..16 : HexDigits[k] = chars[i]

IsIntOrLabel(value, data) ==
    IF int(value).ok THEN data.kind = "int" /\ data.int = int(value).value
    ELSE data.kind = "str" /\ data.str = value

C14_WitnessRange ==
    /\ MadeFromValue
    /\ IsTimestampPair(qIn.data)
    /\ qOut.data.kind = "range"

\* '0x' followed by lower-case digits was given, and make raised
C14_WitnessRaised ==
    /\ MadeFromValue
    /\ qIn.data = <<"0", "x", "a", "b">>
    /\ qOut.raised = "binascii.Error"

(***************************************************************************)
(* Claims about bytes data and show_removed (specification SpecQuery).     *)
(***************************************************************************)
MadeFromBytes == qIn.op = "make_bytes" /\ qOut.done

\* C15: bytes data is round-tripped as a base-16 string prefixed by '0x': for
\* every byte string b, make(data='0x' + base16(b)).data equals b.
C15_BytesRoundTrip ==
    MadeFromBytes
        => /\ qIn.data = <<"0", "x">> \o b16encode(qIn.blob)
           /\ qOut.raised = ""
           /\ qOut.data.kind = "bytes"
           /\ qOut.data.bytes = qIn.blob

\* the bytes AB 0A were given as '0xAB0A', and came back
C15_Witness ==
    /\ MadeFromBytes
    /\ qIn.blob = <<171, 10>>
    /\ qIn.data = <<"0", "x", "A", "B", "0", "A">>
    /\ qOut.data.bytes = <<171, 10>>

MadeFromShowRemoved == qIn.op = "make_show_removed" /\ qOut.done

\* C17 as stated: make converts the show_removed query value to the boolean it
\* denotes: '1' or 'true' (any letter case) gives True, '0' or 'false' gives
\* False, an absent value gives None, and any other value raises ValueError.
C17_ShowRemovedDenoted ==
    MadeFromShowRemoved
        => IF qIn.show_removed = Absent
           THEN qOut.raised = "" /\ qOut.show_removed = "None"
           ELSE IF lower(qIn.show_removed) \in {<<"1">>, <<"t", "r", "u", "e">>}
           THEN qOut.raised = "" /\ qOut.show_removed = "True"
           ELSE IF lower(qIn.show_removed) \in {<<"0">>, <<"f", "a", "l", "s", "e">>}
           THEN qOut.raised = "" /\ qOut.show_removed = "False"
           ELSE qOut.raised = "ValueError"

\* what make does with show_removed: every value that denotes a boolean gives
\* True, an absent value gives None, and any other value raises ValueError
C17_ShowRemovedGiven ==
    MadeFromShowRemoved
        => IF qIn.show_removed = Absent
           THEN qOut.raised = "" /\ qOut.show_removed = "None"
           ELSE IF lower(qIn.show_removed)
                       \in {<<"1">>, <<"t", "r", "u", "e">>, <<"0">>,
                            <<"f", "a", "l", "s", "e">>}
           THEN qOut.raised = "" /\ qOut.show_removed = "True"
           ELSE qOut.raised = "ValueError"

\* show_removed='false' was given, and make set show_removed to True
C17_Witness ==
    /\ MadeFromShowRemoved
    /\ qIn.show_removed = <<"f", "a", "l", "s", "e">>
    /\ qOut.raised = ""
    /\ qOut.show_removed = "True"

(***************************************************************************)
(* Function calls (specification SpecCall): the arguments of one call are  *)
(* drawn into cIn, and the action of the function called writes its        *)
(* outcome to cOut.                                                        *)
(***************************************************************************)
\* QueryParams.normalize_dataset(data)
\* the character ` (a backtick) is written "backtick"
normalize_dataset(data) ==
    lower(SelectSeq(data, LAMBDA c : c \notin {"*", "backtick", " "}))

\* normalized.index(query): the 0-based position of the first equal element;
\* [raised, index]
list_index(normalized, query) ==
    IF \E i \in 1..Len(normalized) : normalized[i] = query
    THEN [raised |-> "",
          index |-> (CHOOSE i \in 1..Len(normalized) :
                        normalized[i] = query /\ \A j \in 1..(i - 1) : normalized[j] # query)
                    - 1]
    ELSE [raised |-> "ValueError", index |-> 0]

\* _handle_query_arg(query, options) for query the data of a QueryParams
handle_query_arg(query, options) ==
    IF query.kind = "int" THEN [raised |-> "", index |-> query.int]
    ELSE IF query.kind = "range" THEN [raised |-> "", index |-> 0]
    ELSE IF query.kind = "str"
    THEN list_index([i \in 1..Len(options) |-> normalize_dataset(options[i])],
                    normalize_dataset(query.str))
    ELSE [raised |-> "TypeError", index |-> 0]

\* the index that DatasetWidget.select hands to st.radio / st.selectbox
select_index(query_dataset, options) ==
    IF query_dataset.kind = "str" THEN handle_query_arg(query_dataset, options)
    ELSE [raised |-> "", index |-> 0]

\* ord(c) of the characters of a generated prefix
ord(c) ==
    CASE c = "A" -> 65 [] c = "B" -> 66 [] c = ":" -> 58 [] c = "0" -> 48 [] c = "1" -> 49

\* chars.encode()
encode(chars) == [i \in 1..Len(chars) |-> ord(chars[i])]

\* a loader's get_prefix(): None, or bytes
NoPrefix == [none |-> TRUE, bytes |-> <<>>]

\* DataWidget._custom_loader_prefix(variant) for loader = custom_dataset_loader[variant]
custom_loader_prefix(loader, variant) ==
    IF loader.prefix.none THEN encode(loader.cls \o <<":">> \o str(variant) \o <<":">>)
    ELSE loader.prefix.bytes

\* params.startswith(prefix)
startswith(s, prefix) == Len(s) >= Len(prefix) /\ SubSeq(s, 1, Len(prefix)) = prefix

\* the params that _handle_custom_loader passes to loader.load: [none, bytes]
load_params(data, prefix) ==
    IF data.kind = "bytes" /\ startswith(data.bytes, prefix)
       /\ Len(data.bytes) > Len(prefix)
    THEN [none |-> FALSE, bytes |-> SubSeq(data.bytes, Len(prefix) + 1, Len(data.bytes))]
    ELSE [none |-> TRUE, bytes |-> <<>>]

\* a Python value: its type, its content, and the items of a tuple
Value(type, val) == [type |-> type, val |-> val, items |-> <<>>]

TupleOf(items) == [type |-> "tuple", val |-> <<>>, items |-> items]

NoReturn3 == [df |-> <<>>, aggregations |-> <<>>, params |-> <<>>]

\* error_msg(reason): the class named, and the reason
error_msg(loader, reason) == [cls |-> loader.cls, reason |-> reason]

NoMessage == [cls |-> <<>>, reason |-> ""]

\* DataWidget._handle_custom_loader checking the result without the check of
\* the aggregations
handle_custom_loader_any_aggregations(loader, prefix, result) ==
    LET checked(df, aggregations, params) ==
            IF df.type # "DataFrame"
            THEN [raised |-> "TypeError", msg |-> error_msg(loader, "type(df)"),
                  ret |-> NoReturn3]
            ELSE IF params.type # "bytes"
            THEN [raised |-> "TypeError", msg |-> error_msg(loader, "type(params)"),
                  ret |-> NoReturn3]
            ELSE [raised |-> "", msg |-> NoMessage,
                  ret |-> [df |-> df.val, aggregations |-> aggregations.val,
                           params |-> prefix \o params.val]]
    IN  IF result.type = "tuple"
        THEN IF Len(result.items) # 3
             THEN [raised |-> "TypeError", msg |-> error_msg(loader, "len(result)"),
                   ret |-> NoReturn3]
             ELSE checked(result.items[1], result.items[2], result.items[3])
        ELSE checked(result, Value("dict", <<>>), Value("bytes", <<>>))

\* DataWidget._handle_custom_loader from `result = loader.load(params)` on:
\* [raised, msg, ret]
handle_custom_loader(loader, prefix, result) ==
    LET checked(df, aggregations, params) ==
            IF df.type # "DataFrame"
            THEN [raised |-> "TypeError", msg |-> error_msg(loader, "type(df)"),
                  ret |-> NoReturn3]
            ELSE IF aggregations.type # "dict"
            THEN [raised |-> "TypeError", msg |-> error_msg(loader, "type(aggregations)"),
                  ret |-> NoReturn3]
            ELSE IF params.type # "bytes"
            THEN [raised |-> "TypeError", msg |-> error_msg(loader, "type(params)"),
                  ret |-> NoReturn3]
            ELSE [raised |-> "", msg |-> NoMessage,
                  ret |-> [df |-> df.val, aggregations |-> aggregations.val,
                           params |-> prefix \o params.val]]
    IN  IF result.type = "tuple"
        THEN IF Len(result.items) # 3
             THEN [raised |-> "TypeError", msg |-> error_msg(loader, "len(result)"),
                   ret |-> NoReturn3]
             ELSE checked(result.items[1], result.items[2], result.items[3])
        ELSE checked(result, Value("dict", <<>>), Value("bytes", <<>>))

NoLoader == [cls |-> <<>>, prefix |-> NoPrefix]

\* what the specs of DATASET_LOADER resolve to: _from_user_spec(value) returns
\* a loader or raises; [raised, loader]
from_user_spec(value) ==
    CASE value = "m:A" -> [raised |-> "", loader |-> [cls |-> <<"A">>, prefix |-> NoPrefix]]
      [] value = "m:B" ->
            [raised |-> "",
             loader |-> [cls |-> <<"B">>, prefix |-> [none |-> FALSE, bytes |-> <<66>>]]]
      [] value = "m:Empty" ->
            [raised |-> "",
             loader |-> [cls |-> <<"E">>, prefix |-> [none |-> FALSE, bytes |-> <<>>]]]
      [] OTHER -> [raised |-> "TypeError", loader |-> NoLoader]

\* _sanity_check(loader) for a loader whose get_prefix() returns the same
\* value every time: the exception raised, "" for none
sanity_check(loader) ==
    IF loader.prefix.none THEN ""
    ELSE IF Len(loader.prefix.bytes) = 0 THEN "RuntimeError" ELSE ""

RECURSIVE from_env_entrypoint_loop(_, _)
\* the loop of from_env_entrypoint over DATASET_LOADER from the k-th value on:
\* [raised, loaders]
from_env_entrypoint_loop(DATASET_LOADER, k) ==
    IF k > Len(DATASET_LOADER) THEN [raised |-> "", loaders |-> <<>>]
    ELSE IF DATASET_LOADER[k] = "" THEN from_env_entrypoint_loop(DATASET_LOADER, k + 1)
    ELSE LET resolved(r) ==
                 IF r.raised # "" THEN [raised |-> r.raised, loaders |-> <<>>]
                 ELSE IF sanity_check(r.loader) # ""
                 THEN [raised |-> sanity_check(r.loader), loaders |-> <<>>]
                 \* loaders.append(loader); break
                 ELSE [raised |-> "", loaders |-> <<r.loader>>]
         IN  resolved(from_user_spec(DATASET_LOADER[k]))

\* from_env_entrypoint() for config.DATASET_LOADER
from_env_entrypoint(DATASET_LOADER) == from_env_entrypoint_loop(DATASET_LOADER, 1)

(***************************************************************************)
(* The arguments drawn.                                                    *)
(***************************************************************************)
Stems == {<<>>, <<"a">>, <<"a", ".", "b">>, <<"d", "i", "r", ".", "v", "1", ".", "2", ".", "x">>}

FormatTails ==
    {<<>>, <<"c", "s", "v">>, <<".", "x", "l", "s", "x">>, <<".", "C", "S", "V">>,
     <<".", "c", "s", "v", "s">>}
        \cup {<<".">> \o f : f \in DOMAIN FILE_SUFFIXES}

CompressionTails ==
    {<<>>, <<"z", "i", "p">>, <<".", "m", "y", "z", "i", "p">>, <<".", "g", "z">>, <<".">>,
     <<".", "Z", "I", "P">>}
        \cup {<<".">> \o c : c \in COMPRESSION_SUFFIXES}

CallPaths == {s \o f \o c : s \in Stems, f \in FormatTails, c \in CompressionTails}

Labels ==
    {<<"A", " ", "b">>, <<"*", "a", "b", "*">>, <<"c">>, <<"backtick", "D", "backtick">>}

MaxOptions == 3

\* the labels of the datasets loaded: no label twice
OptionLists ==
    {o \in SeqsUpTo(Labels, MaxOptions) :
        Len(o) >= 1 /\ \A i, j \in 1..Len(o) : i # j => o[i] # o[j]}

SelectValues ==
    {Absent, <<"a", "b">>, <<"A", "B">>, <<"*", "c", "*">>, <<"d">>, <<"C", " ">>,
     <<"z", "z">>, <<"0">>, <<"1">>, <<"2">>,
     str(TEST_START) \o <<"-">> \o str(TEST_START + 300), <<"0", "x", "4", "1">>}

\* query values for a custom loader: the generated prefix 'A:0:' and the
\* prefix 'B', each alone and before a payload, and values without a prefix
LoaderValues ==
    {Absent, <<"7">>, <<"0", "x", "4", "1", "3", "A", "3", "0", "3", "A">>,
     <<"0", "x", "4", "1", "3", "A", "3", "0", "3", "A", "0", "7">>,
     <<"0", "x", "4", "2">>, <<"0", "x", "4", "2", "0", "7", "0", "8">>,
     <<"0", "x", "0", "7">>}

CallLoaders ==
    {[cls |-> <<"A">>, prefix |-> NoPrefix],
     [cls |-> <<"B">>, prefix |-> [none |-> FALSE, bytes |-> <<66>>]]}

TupleItems ==
    {Value("DataFrame", <<1>>), Value("dict", <<2>>), Value("bytes", <<7>>),
     Value("NoneType", <<>>)}

MaxItems == 4

\* what a loader's load() may return
LoadResults ==
    {Value("DataFrame", <<1>>), Value("dict", <<2>>), Value("bytes", <<7>>),
     Value("NoneType", <<>>), Value("str", <<>>), Value("list", <<>>),
     TupleOf(<<Value("DataFrame", <<1>>), Value("dict", <<>>), Value("bytes", <<>>)>>),
     TupleOf(<<Value("DataFrame", <<1>>), Value("dict", <<2>>), Value("str", <<>>)>>)}
        \cup {TupleOf(t) : t \in SeqsUpTo(TupleItems, MaxItems)}

LoaderSpecs == {"", "m:A", "m:B", "m:Empty", "m:int"}

MaxSpecs == 3

\* the environment variables of the settings modelled
BoolVars == {"PLOT_RAW_TIMESERIES", "PLOT_AGGREGATIONS_PER_FOLD", "REQUIRE_DATASETS"}

IntVars == {"FIGURE_DPI", "MAX_SPLITS"}

\* read_bool(key, default): a variable that is not set gives the default,
\* 'false' gives False and 'true' gives True
read_bool(environ, key, default) ==
    IF environ[key] = Absent THEN default
    ELSE IF default THEN lower(environ[key]) # <<"f", "a", "l", "s", "e">>
    ELSE lower(environ[key]) = <<"t", "r", "u", "e">>

\* read_int(key, default)
read_int(environ, key, default) ==
    IF environ[key] = Absent THEN default ELSE int(environ[key]).value

\* the import of the config module: each setting from the variable that its
\* line names
config_import(environ) ==
    [PLOT_RAW_TIMESERIES |-> read_bool(environ, "PLOT_AGGREGATIONS_PER_FOLD", TRUE),
     PLOT_AGGREGATIONS_PER_FOLD |-> read_bool(environ, "PLOT_AGGREGATIONS_PER_FOLD", TRUE),
     FIGURE_DPI |-> read_int(environ, "FIGURE_DPI", 200),
     MAX_SPLITS |-> read_int(environ, "MAX_SPLITS", 100),
     REQUIRE_DATASETS |-> read_bool(environ, "REQUIRE_DATASETS", FALSE)]

NoEnviron == [k \in BoolVars \cup IntVars |-> Absent]

NoConfigModule ==
    [PLOT_RAW_TIMESERIES |-> FALSE, PLOT_AGGREGATIONS_PER_FOLD |-> FALSE, FIGURE_DPI |-> 0,
     MAX_SPLITS |-> 0, REQUIRE_DATASETS |-> FALSE]

BoolTexts == {Absent, <<"t", "r", "u", "e">>, <<"f", "a", "l", "s", "e">>}

IntTexts == {Absent, <<"1">>, <<"5", "0">>}

\* the environments a server may be started in
Environs ==
    {e \in [BoolVars \cup IntVars -> BoolTexts \cup IntTexts] :
        /\ \A k \in BoolVars : e[k] \in BoolTexts
        /\ \A k \in IntVars : e[k] \in IntTexts}

\* labels of bundled datasets, among them a number, hexadecimal numbers and
\* two that differ in markup alone
PermalinkLabels ==
    Labels \cup {<<"7">>, <<"0", "x", "1", "2">>, <<"0", "x", "A", "B">>, <<"Q", " ", "1", "-", "2">>}

\* the labels of the datasets loaded: no label twice
PermalinkLists ==
    {o \in SeqsUpTo(PermalinkLabels, MaxOptions) :
        Len(o) >= 1 /\ \A i, j \in 1..Len(o) : i # j => o[i] # o[j]}

NoArgs ==
    [op |-> "", path |-> <<>>, options |-> <<>>, value |-> Absent, loader |-> NoLoader,
     variant |-> 0, result |-> Value("NoneType", <<>>), DATASET_LOADER |-> <<>>,
     environ |-> NoEnviron]

CallInputs ==
    {[NoArgs EXCEPT !.op = "get_pandas_read_function", !.path = p] : p \in CallPaths}
        \cup {[NoArgs EXCEPT !.op = "select", !.options = o, !.value = v] :
                  o \in OptionLists, v \in SelectValues}
        \cup {[NoArgs EXCEPT !.op = "_handle_custom_loader", !.loader = l, !.variant = n,
                             !.value = v, !.result = r] :
                  l \in CallLoaders, n \in {0, 1}, v \in LoaderValues, r \in LoadResults}
        \cup {[NoArgs EXCEPT !.op = "from_env_entrypoint", !.DATASET_LOADER = d] :
                  d \in SeqsUpTo(LoaderSpecs, MaxSpecs)}
        \cup {[NoArgs EXCEPT !.op = "config", !.environ = e] : e \in Environs}
        \cup {c \in {[NoArgs EXCEPT !.op = "permalink", !.options = o, !.variant = k] :
                          o \in PermalinkLists, k \in 1..MaxOptions} :
                  c.variant <= Len(c.options)}

NoReturn ==
    [done |-> FALSE, raised |-> "", read_fn |-> "", index |-> 0, params |-> NoPrefix,
     msg |-> NoMessage, ret |-> NoReturn3, loaders |-> <<>>, kind |-> "",
     config |-> NoConfigModule]

InitCall ==
    /\ cIn \in CallInputs
    /\ cOut = NoReturn
    /\ CacheIdle /\ QueryIdle /\ ConfigIdle /\ LoadIdle /\ PoolIdle /\ PerfIdle

\* get_pandas_read_function(cIn.path)
get_pandas_read_function_call ==
    /\ cIn.op = "get_pandas_read_function"
    /\ ~cOut.done
    /\ \E r \in {get_pandas_read_function(cIn.path)} :
           cOut' = [NoReturn EXCEPT !.done = TRUE, !.raised = r.raised, !.read_fn = r.read_fn]
    /\ UNCHANGED cIn

\* DatasetWidget.select with the datasets labelled cIn.options loaded and the
\* query value cIn.value: the index of the preselected option
DatasetWidget_select ==
    /\ cIn.op = "select"
    /\ ~cOut.done
    /\ \E m \in {make([data |-> cIn.value, show_removed |-> Absent])} :
       \E r \in {select_index(m.data, cIn.options)} :
           cOut' = [NoReturn EXCEPT !.done = TRUE, !.raised = r.raised, !.index = r.index]
    /\ UNCHANGED cIn

\* DataWidget._handle_custom_loader(cIn.variant) for the loader cIn.loader,
\* whose load() returns cIn.result
DataWidget_handle_custom_loader ==
    /\ cIn.op = "_handle_custom_loader"
    /\ ~cOut.done
    /\ \E m \in {make([data |-> cIn.value, show_removed |-> Absent])} :
       \E prefix \in {custom_loader_prefix(cIn.loader, cIn.variant)} :
       \E r \in {handle_custom_loader(cIn.loader, prefix, cIn.result)} :
           cOut' = [NoReturn EXCEPT !.done = TRUE, !.raised = r.raised, !.msg = r.msg,
                                    !.ret = r.ret,
                                    !.params = load_params(m.data, prefix)]
    /\ UNCHANGED cIn

\* from_env_entrypoint() with config.DATASET_LOADER = cIn.DATASET_LOADER
from_env_entrypoint_call ==
    /\ cIn.op = "from_env_entrypoint"
    /\ ~cOut.done
    /\ \E r \in {from_env_entrypoint(cIn.DATASET_LOADER)} :
           cOut' = [NoReturn EXCEPT !.done = TRUE, !.raised = r.raised, !.loaders = r.loaders]
    /\ UNCHANGED cIn

\* the permalink of the dataset cIn.options[cIn.variant] opened in a new
\* session: app() puts QueryParams.normalize_dataset(label) in the link,
\* QueryParams.make reads it, and DatasetWidget.select hands the data to
\* _handle_query_arg
DatasetWidget_select_permalink ==
    /\ cIn.op = "permalink"
    /\ ~cOut.done
    /\ \E m \in {make([data |-> normalize_dataset(cIn.options[cIn.variant]),
                       show_removed |-> Absent])} :
       \E r \in {IF m.raised # "" THEN [raised |-> m.raised, index |-> 0]
                 ELSE handle_query_arg(m.data, cIn.options)} :
           cOut' = [NoReturn EXCEPT !.done = TRUE, !.raised = r.raised, !.index = r.index,
                                    !.kind = m.data.kind]
    /\ UNCHANGED cIn

\* `from time_split_app import config` in a process whose environment is
\* cIn.environ
config_module_import ==
    /\ cIn.op = "config"
    /\ ~cOut.done
    /\ cOut' = [NoReturn EXCEPT !.done = TRUE, !.config = config_import(cIn.environ)]
    /\ UNCHANGED cIn

callRest == <<cacheVars, queryVars, configVars, loadVars, poolVars, perfVars>>

NextCall ==
    \/ get_pandas_read_function_call /\ UNCHANGED callRest
    \/ DatasetWidget_select /\ UNCHANGED callRest
    \/ DataWidget_handle_custom_loader /\ UNCHANGED callRest
    \/ from_env_entrypoint_call /\ UNCHANGED callRest
    \/ DatasetWidget_select_permalink /\ UNCHANGED callRest
    \/ config_module_import /\ UNCHANGED callRest

SpecCall == InitCall /\ [][NextCall]_vars

(***************************************************************************)
(* Claims about the function calls (specification SpecCall).               *)
(***************************************************************************)
SelectCalled == cIn.op = "select" /\ cOut.done

\* the positions of the options whose normalized label is the normalized query
LabelMatches(options, query) ==
    {k \in 1..Len(options) : normalize_dataset(options[k]) = normalize_dataset(query)}

\* C16 as stated: a data query value that is an int or str refers to a dataset
\* by index or by label: when it is an integer i, DatasetWidget.select
\* preselects the dataset at index i; when it is a string, it preselects the
\* dataset whose normalized label equals the normalized query.
C16_PreselectsByIndexOrLabel ==
    SelectCalled /\ cIn.value # Absent
        => /\ (/\ make_data(cIn.value).kind = "int"
               /\ make_data(cIn.value).int \in 0..(Len(cIn.options) - 1))
                  => cOut.raised = "" /\ cOut.index = make_data(cIn.value).int
           /\ (/\ make_data(cIn.value).kind = "str"
               /\ LabelMatches(cIn.options, cIn.value) # {})
                  => /\ cOut.raised = ""
                     /\ cOut.index + 1 \in LabelMatches(cIn.options, cIn.value)

\* what select does: a string preselects the first dataset whose normalized
\* label equals the normalized query, and raises ValueError when there is none;
\* every other data preselects the dataset at index 0
C16_PreselectsByLabelOnly ==
    SelectCalled
        => IF cIn.value # Absent /\ make_data(cIn.value).kind = "str"
           THEN IF LabelMatches(cIn.options, cIn.value) # {}
                THEN /\ cOut.raised = ""
                     /\ cOut.index + 1 \in LabelMatches(cIn.options, cIn.value)
                     /\ \A k \in LabelMatches(cIn.options, cIn.value) : cOut.index + 1 <= k
                ELSE cOut.raised = "ValueError"
           ELSE cOut.raised = "" /\ cOut.index = 0

\* data=1 was given with two datasets loaded, and the dataset at index 0 is
\* preselected
C16_Witness ==
    /\ SelectCalled
    /\ cIn.value = <<"1">>
    /\ Len(cIn.options) = 2
    /\ cOut.raised = ""
    /\ cOut.index = 0

\* data=c was given with the label 'c' loaded second, and it is preselected
C16_WitnessLabel ==
    /\ SelectCalled
    /\ cIn.value = <<"*", "c", "*">>
    /\ Len(cIn.options) >= 2
    /\ cIn.options[2] = <<"c">>
    /\ cOut.index = 1

ReadFunctionCalled == cIn.op = "get_pandas_read_function" /\ cOut.done

\* the formats f for which path ends in '.<f>' or in '.<f>.<compression>'
FormatsOf(path) ==
    {f \in DOMAIN FILE_SUFFIXES :
        \/ endswith(path, <<".">> \o f)
        \/ \E c \in COMPRESSION_SUFFIXES : endswith(path, <<".">> \o f \o <<".">> \o c)}

\* C18 as stated: get_pandas_read_function(path) returns the reader mapped to
\* the path's format suffix exactly when the path ends in '.<format>' or in
\* '.<format>.<compression>' with <format> in FILE_SUFFIXES and <compression> in
\* COMPRESSION_SUFFIXES; for every other path string it raises ValueError.
C18_ReaderExactlyForFormatSuffix ==
    ReadFunctionCalled
        => IF FormatsOf(cIn.path) # {}
           THEN /\ cOut.raised = ""
                /\ \E f \in FormatsOf(cIn.path) : cOut.read_fn = FILE_SUFFIXES[f]
           ELSE cOut.raised = "ValueError"

\* a path that ends in '.<format>' or in '.<format>.<compression>' gets the
\* reader mapped to the format
C18_ReaderForFormatSuffix ==
    ReadFunctionCalled /\ FormatsOf(cIn.path) # {}
        => /\ cOut.raised = ""
           /\ \E f \in FormatsOf(cIn.path) : cOut.read_fn = FILE_SUFFIXES[f]

\* the path 'a.csv.myzip' was given, and read_csv returned
C18_Witness ==
    /\ ReadFunctionCalled
    /\ cIn.path = <<"a", ".", "c", "s", "v", ".", "m", "y", "z", "i", "p">>
    /\ cOut.raised = ""
    /\ cOut.read_fn = "read_csv"

\* the path 'azip' was given, and IndexError raised
C18_WitnessIndexError ==
    /\ ReadFunctionCalled
    /\ cIn.path = <<"a", "z", "i", "p">>
    /\ cOut.raised = "IndexError"

LoaderCalled == cIn.op = "_handle_custom_loader" /\ cOut.done

\* a DataFrame, or a 3-tuple (DataFrame, dict, bytes)
GoodResult(result) ==
    \/ result.type = "DataFrame"
    \/ /\ result.type = "tuple"
       /\ Len(result.items) = 3
       /\ result.items[1].type = "DataFrame"
       /\ result.items[2].type = "dict"
       /\ result.items[3].type = "bytes"

\* C19: _handle_custom_loader raises TypeError with a message naming the
\* loader's class whenever loader.load returns anything other than a DataFrame
\* or a 3-tuple (DataFrame, dict, bytes); on success it returns the frame, the
\* aggregations and the loader's prefix followed by the params the loader
\* returned.
C19_BadResultRaisesTypeError ==
    LoaderCalled
        => IF ~GoodResult(cIn.result)
           THEN cOut.raised = "TypeError" /\ cOut.msg.cls = cIn.loader.cls
           ELSE /\ cOut.raised = ""
                /\ IF cIn.result.type = "DataFrame"
                   THEN /\ cOut.ret.df = cIn.result.val
                        /\ cOut.ret.aggregations = <<>>
                        /\ cOut.ret.params = custom_loader_prefix(cIn.loader, cIn.variant)
                   ELSE /\ cOut.ret.df = cIn.result.items[1].val
                        /\ cOut.ret.aggregations = cIn.result.items[2].val
                        /\ cOut.ret.params
                               = custom_loader_prefix(cIn.loader, cIn.variant)
                                     \o cIn.result.items[3].val

\* load() of a loader of class A returned (DataFrame, None, bytes), and
\* TypeError naming A was raised
C19_Witness ==
    /\ LoaderCalled
    /\ cIn.loader.cls = <<"A">>
    /\ cIn.result = TupleOf(<<Value("DataFrame", <<1>>), Value("NoneType", <<>>),
                              Value("bytes", <<7>>)>>)
    /\ cOut.raised = "TypeError"
    /\ cOut.msg.cls = <<"A">>

\* load() of the second loader, of class A, returned (DataFrame, dict, b'\x07'),
\* and the params returned are the generated prefix 'A:1:' and the byte 7
C19_WitnessReturned ==
    /\ LoaderCalled
    /\ cIn.loader.cls = <<"A">>
    /\ cIn.variant = 1
    /\ cIn.result = TupleOf(<<Value("DataFrame", <<1>>), Value("dict", <<2>>),
                              Value("bytes", <<7>>)>>)
    /\ cOut.raised = ""
    /\ cOut.ret = [df |-> <<1>>, aggregations |-> <<2>>, params |-> <<65, 58, 49, 58, 7>>]

EntrypointCalled == cIn.op = "from_env_entrypoint" /\ cOut.done

\* the non-empty specs of DATASET_LOADER, in order
NonEmptySpecs(DATASET_LOADER) == SelectSeq(DATASET_LOADER, LAMBDA v : v # "")

\* every non-empty spec resolves to a loader that passes the sanity check
AllSpecsGood(DATASET_LOADER) ==
    \A k \in 1..Len(DATASET_LOADER) :
        DATASET_LOADER[k] # ""
            => /\ from_user_spec(DATASET_LOADER[k]).raised = ""
               /\ sanity_check(from_user_spec(DATASET_LOADER[k]).loader) = ""

\* C20 as stated: comma-separated specs in DATASET_LOADER configure multiple
\* custom loaders: from_env_entrypoint returns one DataLoaderWidget per
\* non-empty spec, in the order given.
C20_OneLoaderPerSpec ==
    EntrypointCalled /\ AllSpecsGood(cIn.DATASET_LOADER)
        => /\ cOut.raised = ""
           /\ cOut.loaders
                  = [k \in 1..Len(NonEmptySpecs(cIn.DATASET_LOADER)) |->
                        from_user_spec(NonEmptySpecs(cIn.DATASET_LOADER)[k]).loader]

\* what from_env_entrypoint does: it returns the loader of the first non-empty
\* spec alone, and no loader when every spec is empty
C20_FirstLoaderOnly ==
    EntrypointCalled /\ AllSpecsGood(cIn.DATASET_LOADER)
        => /\ cOut.raised = ""
           /\ cOut.loaders
                  = IF NonEmptySpecs(cIn.DATASET_LOADER) = <<>> THEN <<>>
                    ELSE <<from_user_spec(NonEmptySpecs(cIn.DATASET_LOADER)[1]).loader>>

\* DATASET_LOADER was 'm:A,m:B', and the loader of class A alone was returned
C20_Witness ==
    /\ EntrypointCalled
    /\ cIn.DATASET_LOADER = <<"m:A", "m:B">>
    /\ cOut.raised = ""
    /\ Len(cOut.loaders) = 1
    /\ cOut.loaders[1].cls = <<"A">>

(***************************************************************************)
(* Claims about a missing config file (specification Spec).                *)
(***************************************************************************)
\* a call of the cached load_dataset_configs was made in the latest step
ConfigsCalled == last.op \in {"load_datasets", "has_data"}

\* what holds of a call in every state
C23_CallsAfterErrors ==
    ConfigsCalled
        => \* the file was found missing: the path is blanked
           /\ (last.cfgRead /\ last.cfgError = "FileNotFoundError" /\ ~REQUIRE_DATASETS)
                 => DATASETS_CONFIG_PATH = ""
           \* the path was blank: nothing is read, and (None, now, b'') returned,
           \* now being the time at which the function ran
           /\ last.pathBefore = ""
                 => /\ ~last.cfgRead
                    /\ last.cfgValue.none
                    /\ last.cfgValue.digest = EmptyDigest
                    /\ ~last.cfgHit => last.cfgValue.loaded = last.now
                    /\ last.cfgHit => last.cfgValue = last.cfgPrev
                    /\ DATASETS_CONFIG_PATH = ""
           \* any other load error: the path is kept
           /\ (last.cfgRead /\ last.cfgError \notin {"", "FileNotFoundError"}
                  /\ ~REQUIRE_DATASETS)
                 => DATASETS_CONFIG_PATH = last.pathBefore /\ DATASETS_CONFIG_PATH # ""
           \* and the read is retried once the ttl is over
           /\ (last.pathBefore # "" /\ last.cfgHad /\ last.cfgPrev.none
                  /\ last.cfgAge >= DATASET_CONFIG_CACHE_TTL)
                 => last.cfgRead

\* C23: once the config file has been found missing (FileNotFoundError with
\* REQUIRE_DATASETS false), dataset loading stays disabled for the rest of the
\* process: in every later state DATASETS_CONFIG_PATH is empty and
\* load_dataset_configs returns (None, now, b'') without reading any file, even
\* if the file is created afterwards; after any other load error the path is
\* kept and the read is retried once the cache ttl expires.
C23_MissingFileDisablesLoading ==
    /\ []C23_CallsAfterErrors
    /\ [][DATASETS_CONFIG_PATH = "" => DATASETS_CONFIG_PATH' = ""]_vars

\* the file was found missing, a file with a dataset was written afterwards,
\* and a call past the ttl returned None without reading it
C23_Witness ==
    /\ ConfigsCalled
    /\ last.pathBefore = ""
    /\ cfgFile = File(<<SecA>>)
    /\ last.cfgAge >= DATASET_CONFIG_CACHE_TTL
    /\ ~last.cfgRead
    /\ last.cfgValue = ConfigsValue(TRUE, <<>>, last.now, EmptyDigest)

\* the file was no TOML, it was put right, and a call past the ttl read it
C23_WitnessRetried ==
    /\ ConfigsCalled
    /\ last.cfgHad
    /\ last.cfgPrev.none
    /\ last.cfgAge >= DATASET_CONFIG_CACHE_TTL
    /\ last.cfgRead
    /\ last.cfgError = ""
    /\ ~last.cfgValue.none

(***************************************************************************)
(* Claims about permalinks to bundled datasets (specification SpecCall).   *)
(***************************************************************************)
PermalinkOpened == cIn.op = "permalink" /\ cOut.done

\* C27 as stated: permalinks to bundled datasets round-trip: for every
\* configured dataset d, normalize_dataset(d.label) as the data query value is
\* kept as a label by make and makes _handle_query_arg return d's own index, for
\* every set of distinct configured labels.
C27_PermalinkRoundTrip ==
    PermalinkOpened
        => /\ cOut.raised = ""
           /\ cOut.kind = "str"
           /\ cOut.index = cIn.variant - 1

\* the normalized label is read by make as a label
ReadAsLabel(label) ==
    /\ ~StartsWith0x(normalize_dataset(label))
    /\ ~int(normalize_dataset(label)).ok
    /\ ~IsTimestampPair(normalize_dataset(label))

\* what holds: the permalink of a dataset whose normalized label is read as a
\* label, and is the normalized label of no dataset before it, round-trips
C27_RoundTripOfFirstLabel ==
    (/\ PermalinkOpened
     /\ ReadAsLabel(cIn.options[cIn.variant])
     /\ \A k \in LabelMatches(cIn.options, cIn.options[cIn.variant]) : cIn.variant <= k)
        => /\ cOut.raised = ""
           /\ cOut.kind = "str"
           /\ cOut.index = cIn.variant - 1

\* the datasets 'A b' and '*ab*' are loaded, and the permalink of the second
\* gives the index of the first
C27_Witness ==
    /\ PermalinkOpened
    /\ cIn.options = <<<<"A", " ", "b">>, <<"*", "a", "b", "*">>>>
    /\ cIn.variant = 2
    /\ cOut.raised = ""
    /\ cOut.index = 0

\* the dataset '7' is loaded second, and its permalink is read as the int 7
C27_WitnessInt ==
    /\ PermalinkOpened
    /\ cIn.options = <<<<"c">>, <<"7">>>>
    /\ cIn.variant = 2
    /\ cOut.kind = "int"
    /\ cOut.index = 7

(***************************************************************************)
(* Claims about the settings and the environment (specification SpecCall). *)
(***************************************************************************)
ConfigImported == cIn.op = "config" /\ cOut.done

\* the boolean that the text of a variable denotes
BoolOf(text, default) ==
    IF text = Absent THEN default ELSE text = <<"t", "r", "u", "e">>

\* the integer that the text of a variable denotes
IntOf(text, default) == IF text = Absent THEN default ELSE int_digits(text, Len(text))

\* C28 as stated: each setting of the config module is read from the
\* environment variable of the same name; in particular PLOT_RAW_TIMESERIES is
\* controlled by the PLOT_RAW_TIMESERIES variable and does not change when only
\* PLOT_AGGREGATIONS_PER_FOLD is changed.
C28_EachSettingFromOwnVariable ==
    ConfigImported
        => /\ cOut.config.PLOT_RAW_TIMESERIES
                  = BoolOf(cIn.environ["PLOT_RAW_TIMESERIES"], TRUE)
           /\ cOut.config.PLOT_AGGREGATIONS_PER_FOLD
                  = BoolOf(cIn.environ["PLOT_AGGREGATIONS_PER_FOLD"], TRUE)
           /\ cOut.config.FIGURE_DPI = IntOf(cIn.environ["FIGURE_DPI"], 200)
           /\ cOut.config.MAX_SPLITS = IntOf(cIn.environ["MAX_SPLITS"], 100)
           /\ cOut.config.REQUIRE_DATASETS = BoolOf(cIn.environ["REQUIRE_DATASETS"], FALSE)
           /\ \A t \in BoolTexts :
                 config_import([cIn.environ EXCEPT !["PLOT_AGGREGATIONS_PER_FOLD"] = t])
                        .PLOT_RAW_TIMESERIES
                     = cOut.config.PLOT_RAW_TIMESERIES

\* what holds: every setting but PLOT_RAW_TIMESERIES is read from the variable
\* of the same name, and PLOT_RAW_TIMESERIES from PLOT_AGGREGATIONS_PER_FOLD
C28_RawTimeseriesFromAggregations ==
    ConfigImported
        => /\ cOut.config.PLOT_RAW_TIMESERIES
                  = BoolOf(cIn.environ["PLOT_AGGREGATIONS_PER_FOLD"], TRUE)
           /\ cOut.config.PLOT_AGGREGATIONS_PER_FOLD
                  = BoolOf(cIn.environ["PLOT_AGGREGATIONS_PER_FOLD"], TRUE)
           /\ cOut.config.FIGURE_DPI = IntOf(cIn.environ["FIGURE_DPI"], 200)
           /\ cOut.config.MAX_SPLITS = IntOf(cIn.environ["MAX_SPLITS"], 100)
           /\ cOut.config.REQUIRE_DATASETS = BoolOf(cIn.environ["REQUIRE_DATASETS"], FALSE)

\* PLOT_RAW_TIMESERIES=true and PLOT_AGGREGATIONS_PER_FOLD=false were set, and
\* config.PLOT_RAW_TIMESERIES is False
C28_Witness ==
    /\ ConfigImported
    /\ cIn.environ["PLOT_RAW_TIMESERIES"] = <<"t", "r", "u", "e">>
    /\ cIn.environ["PLOT_AGGREGATIONS_PER_FOLD"] = <<"f", "a", "l", "s", "e">>
    /\ ~cOut.config.PLOT_RAW_TIMESERIES
    /\ ~cOut.config.PLOT_AGGREGATIONS_PER_FOLD


(***************************************************************************)
(* app.py: the render passes of two browser sessions of one server         *)
(* process (specification SpecRender).  Every session runs app.py from top *)
(* to bottom in a thread of its own; the config module is the one module   *)
(* object of the process, so perf.config is shared by the sessions.        *)
(* sess[s] is the pass of session s: [pc, applied, read, all_splits,       *)
(* shown, out]: the values its update_config wrote, the values that its    *)
(* later steps read from the config module, len(ALL_SPLITS), and what it   *)
(* has rendered.                                                           *)
(***************************************************************************)
Sessions == {"s1", "s2"}

MaxSplits == 3

\* len(ALL_SPLITS)
SplitCounts == 1..MaxSplits

NoValues == [k \in PerfKeys |-> Unset]

NoPass == [pc |-> "waiting", applied |-> NoValues, read |-> NoValues, all_splits |-> Unset,
           shown |-> {}, out |-> "none"]

\* the hard limits of the server: the largest value of every key
RenderLimits == [k \in PerfKeys |-> IF k \in BoolKeys THEN 1 ELSE MaxLimit]

\* the slider values of a pass: values within the bounds of the sliders, and
\* the user has moved at most one slider away from the hard limit
RenderSubmits ==
    {v \in [PerfKeys -> SubmittedValues] :
        /\ \A k \in PerfKeys : (IF k \in BoolKeys THEN 0 ELSE 1) <= v[k] /\ v[k] <= RenderLimits[k]
        /\ Cardinality({k \in PerfKeys : v[k] # RenderLimits[k]}) <= 1}

\* enforce_max_splits(all_splits, kwargs, limits): TRUE when _too_many_splits
\* is called
enforce_max_splits_never(all_splits, MAX_SPLITS) == FALSE

enforce_max_splits(all_splits, MAX_SPLITS) == all_splits > MAX_SPLITS

InitRender ==
    /\ perf = [pc |-> "running", limits |-> RenderLimits, env |-> NoValues,
               config |-> RenderLimits, exitCode |-> 0, out |-> "started"]
    /\ sess = [s \in Sessions |-> NoPass]
    /\ CacheIdle /\ QueryIdle /\ ConfigIdle /\ LoadIdle /\ PoolIdle /\ CallIdle

\* app.py:74, PERFORMANCE_TWEAKS_WIDGET.update_config() at the start of a pass
\* of session s: setattr(config, key, value) for every key
render_update_config(s) ==
    /\ perf.pc = "running"
    /\ sess[s].pc = "waiting"
    /\ \E submitted \in RenderSubmits :
       \E r \in {update_config_values(submitted)} :
       \E o \in {update_config_outcome(r)} :
          IF o = "applied"
          THEN /\ perf' = [perf EXCEPT !.config = [k \in PerfKeys |-> r[k].value], !.out = o]
               /\ sess' = [sess EXCEPT ![s] = [NoPass EXCEPT !.pc = "tweaked",
                                  !.applied = [k \in PerfKeys |-> r[k].value], !.out = o]]
          ELSE IF o = "exit"
          THEN /\ perf' = [perf EXCEPT !.pc = "exited", !.exitCode = HARD_LIMIT_EXIT_CODE,
                                       !.out = o]
               /\ sess' = [sess EXCEPT ![s] = [NoPass EXCEPT !.out = o]]
          ELSE /\ perf' = [perf EXCEPT !.out = o]
               /\ sess' = [sess EXCEPT ![s] = [NoPass EXCEPT !.out = o]]

\* app.py:88-97, the raw data tab: if config.PLOT_RAW_TIMESERIES
render_data_tab(s) ==
    /\ perf.pc = "running"
    /\ sess[s].pc = "tweaked"
    /\ sess' = [sess EXCEPT ![s].pc = "data",
                            ![s].read["PLOT_RAW_TIMESERIES"] = perf.config["PLOT_RAW_TIMESERIES"],
                            ![s].shown = IF perf.config["PLOT_RAW_TIMESERIES"] # 0
                                         THEN @ \cup {"raw"} ELSE @]
    /\ UNCHANGED perf

\* app.py:99-107: split(...), st.stop() on a ValueError, then
\* enforce_max_splits(len(ALL_SPLITS), split_kwargs, limits), which stops the
\* pass in the dialog _too_many_splits
render_enforce_max_splits(s) ==
    /\ perf.pc = "running"
    /\ sess[s].pc = "data"
    /\ \E valueError \in BOOLEAN : \E all_splits \in SplitCounts :
          sess' = IF valueError
                  THEN [sess EXCEPT ![s].pc = "waiting", ![s].out = "ValueError",
                                    ![s].shown = @ \cup {"error"}]
                  ELSE IF enforce_max_splits(all_splits, perf.config["MAX_SPLITS"])
                  THEN [sess EXCEPT ![s].pc = "waiting", ![s].out = "stopped",
                                    ![s].all_splits = all_splits,
                                    ![s].read["MAX_SPLITS"] = perf.config["MAX_SPLITS"],
                                    ![s].shown = @ \cup {"dialog"}]
                  ELSE [sess EXCEPT ![s].pc = "enforced",
                                    ![s].all_splits = all_splits,
                                    ![s].read["MAX_SPLITS"] = perf.config["MAX_SPLITS"]]
    /\ UNCHANGED perf

\* app.py:109-119, the folds tab: _views.primary(...) draws the folds with
\* dpi=config.FIGURE_DPI
render_folds_tab(s) ==
    /\ perf.pc = "running"
    /\ sess[s].pc = "enforced"
    /\ sess' = [sess EXCEPT ![s].pc = "folds",
                            ![s].read["FIGURE_DPI"] = perf.config["FIGURE_DPI"],
                            ![s].shown = @ \cup {"folds"}]
    /\ UNCHANGED perf

\* app.py:121-122, the aggregations tab: plot_aggregations(...) shows the
\* aggregations if config.PLOT_AGGREGATIONS_PER_FOLD; the pass is complete
render_aggregations_tab(s) ==
    /\ perf.pc = "running"
    /\ sess[s].pc = "folds"
    /\ sess' = [sess EXCEPT ![s].pc = "waiting", ![s].out = "finished",
                            ![s].read["PLOT_AGGREGATIONS_PER_FOLD"]
                                = perf.config["PLOT_AGGREGATIONS_PER_FOLD"],
                            ![s].shown = IF perf.config["PLOT_AGGREGATIONS_PER_FOLD"] # 0
                                         THEN @ \cup {"aggregations"} ELSE @]
    /\ UNCHANGED perf

renderRest == <<cacheVars, queryVars, configVars, loadVars, poolVars, callVars>>

NextRender ==
    \/ \E s \in Sessions : render_update_config(s) /\ UNCHANGED renderRest
    \/ \E s \in Sessions : render_data_tab(s) /\ UNCHANGED renderRest
    \/ \E s \in Sessions : render_enforce_max_splits(s) /\ UNCHANGED renderRest
    \/ \E s \in Sessions : render_folds_tab(s) /\ UNCHANGED renderRest
    \/ \E s \in Sessions : render_aggregations_tab(s) /\ UNCHANGED renderRest

SpecRender == InitRender /\ [][NextRender]_vars

(***************************************************************************)
(* Claims about the render passes (specification SpecRender).              *)
(***************************************************************************)
\* C24 as stated: performance tweaks are isolated per session: in every
\* interleaving of the passes of two sessions, the MAX_SPLITS, FIGURE_DPI and
\* PLOT_* values that a pass of a session reads are the values that the
\* update_config of that pass applied, whatever the other session applies.
C24_TweaksIsolatedPerSession ==
    \A s \in Sessions : \A k \in PerfKeys :
        sess[s].read[k] # Unset => sess[s].read[k] = sess[s].applied[k]

\* session s1 applied MAX_SPLITS = MaxLimit, session s2 then applied
\* MAX_SPLITS = 1, and the enforce_max_splits of s1 used 1
C24_Witness ==
    /\ sess["s1"].applied["MAX_SPLITS"] = MaxLimit
    /\ sess["s2"].applied["MAX_SPLITS"] = 1
    /\ sess["s1"].read["MAX_SPLITS"] = 1
    /\ sess["s1"].out = "stopped"
    /\ sess["s1"].all_splits = MaxLimit

\* C25: a render pass displays the folds and the per-fold aggregations only
\* when the number of splits computed with filters ignored is at most
\* config.MAX_SPLITS; otherwise enforce_max_splits shows the "Too many splits"
\* dialog and halts the pass before anything fold-related is rendered.
C25_FoldsOnlyWithinMaxSplits ==
    \A s \in Sessions :
        /\ sess[s].shown \cap {"folds", "aggregations"} # {}
              => /\ sess[s].all_splits # Unset
                 /\ sess[s].all_splits <= sess[s].read["MAX_SPLITS"]
        /\ (sess[s].all_splits # Unset /\ sess[s].all_splits > sess[s].read["MAX_SPLITS"])
              => /\ "dialog" \in sess[s].shown
                 /\ sess[s].shown \cap {"folds", "aggregations"} = {}
                 /\ sess[s].pc = "waiting"
                 /\ sess[s].out = "stopped"

\* a pass with as many splits as MAX_SPLITS has shown folds and aggregations
C25_Witness ==
    /\ sess["s1"].out = "finished"
    /\ sess["s1"].all_splits = MaxLimit
    /\ sess["s1"].read["MAX_SPLITS"] = MaxLimit
    /\ {"folds", "aggregations"} \subseteq sess["s1"].shown

\* a pass with one split more than MAX_SPLITS was halted in the dialog
C25_WitnessDialog ==
    /\ sess["s1"].out = "stopped"
    /\ sess["s1"].all_splits = MaxLimit + 1
    /\ sess["s1"].read["MAX_SPLITS"] = MaxLimit
    /\ sess["s1"].shown \cap {"folds", "aggregations"} = {}
    /\ "dialog" \in sess["s1"].shown


(***************************************************************************)
(* widgets/data/_data_loader_widget.py, widgets/time/_duration.py,         *)
(* widgets/time/_datetime.py: DataLoaderWidget.select_range (specification *)
(* SpecRange).  A datetime is its number of seconds since midnight of day  *)
(* 0, a date the datetime of its midnight, a timedelta a number of         *)
(* seconds.  cIn is the call [initial_start, initial_end, date_only]; cOut *)
(* is [passes, session, ui, halted, message, start, end]: st.session_state *)
(* of the two duration widgets, what the widgets returned in the most      *)
(* recent pass, and how select_range ended in it.                          *)
(***************************************************************************)
ABSOLUTE == "absolute"

NOW == "now"

RELATIVE == "relative"

\* ANCHOR_HELPER.options
Anchors == {ABSOLUTE, RELATIVE, NOW}

\* datetime.timedelta(**{unit: 1}), pd.Timedelta(1, unit)
UnitSeconds == [days |-> 86400, hours |-> 3600, minutes |-> 60, seconds |-> 1]

\* value.date()
date(value) == (value \div 86400) * 86400

\* DurationWidget.from_delta(delta, date_only): [unit, units, periods]
from_delta(delta, date_only) ==
    LET units == IF date_only THEN {"days"} ELSE {"days", "seconds", "minutes", "hours"}
    IN  [unit |-> IF date_only THEN "days" ELSE "hours",
         units |-> units,
         periods |-> [u \in units |-> round(delta, UnitSeconds[u])]]

\* a key of st.session_state that is not set
NotSet == [set |-> FALSE, unit |-> "", periods |-> 0, previous |-> ""]

\* the user has not touched the duration_widget
Untouched == -1

\* DurationWidget.select(label), lines 82-90: the defaults are stored when the
\* keys of the duration_widget are not in st.session_state; then what the user entered
\* since the last pass is in st.session_state
session_defaults(duration_widget, state, unit, periods) ==
    LET stored == IF state.set THEN state
                  ELSE [state EXCEPT !.set = TRUE, !.unit = duration_widget.unit,
                                     !.periods = duration_widget.periods[duration_widget.unit]]
    IN  [stored EXCEPT !.unit = IF state.set /\ unit \in duration_widget.units THEN unit ELSE @,
                       !.periods = IF state.set /\ periods # Untouched THEN periods ELSE @]

\* DurationWidget.select(label), lines 92-107: the periods are converted when
\* the unit is not the previous one (round(new_periods) or 1)
convert_periods(state) ==
    LET new_periods == round(state.periods * UnitSeconds[state.previous],
                             UnitSeconds[state.unit])
    IN  IF state.previous # "" /\ state.unit # state.previous
        THEN [state EXCEPT !.periods = IF new_periods = 0 THEN 1 ELSE new_periods,
                           !.previous = state.unit]
        ELSE [state EXCEPT !.previous = state.unit]

\* DurationWidget.select(label): [state, delta], the new st.session_state of
\* the duration_widget and pd.Timedelta(periods, unit).to_pytimedelta()
DurationWidget_select(duration_widget, state, unit, periods) ==
    LET f(st) == [state |-> st, delta |-> st.periods * UnitSeconds[st.unit]]
    IN  f(convert_periods(session_defaults(duration_widget, state, unit, periods)))

\* select_datetime(label, initial, date_only=date_only) when the user entered
\* `value` (Untouched: the widgets return their initial values)
select_datetime(initial, date_only, value) ==
    LET chosen == IF value = Untouched THEN initial ELSE value
    IN  IF date_only THEN date(chosen) ELSE chosen

\* lines 191-193, `if start >= end`: the range is refused
invalid_range_reversed(start, end) == start > end

invalid_range(start, end) == start >= end

NoRange == [halted |-> FALSE, raised |-> FALSE, message |-> "", start |-> Untouched,
            end |-> Untouched]

\* DataLoaderWidget.select_range(initial=(initial_start, initial_end),
\* date_only=date_only) in a pass in which the widgets return ui:
\* [range, session].  st.number_input is given a value below its min_value
\* when the stored periods are below 1: it raises (ui.strict) or returns it.
select_range(initial_start, initial_end, date_only, session, ui) ==
    LET duration_widget == from_delta(initial_end - initial_start, date_only)
        start0 == IF ui.start_type = NOW THEN select_datetime(ui.now, date_only, Untouched)
                  ELSE IF ui.start_type = ABSOLUTE
                  THEN select_datetime(initial_start, date_only, ui.start)
                  ELSE Untouched
        end0 == IF ui.end_type = NOW THEN select_datetime(ui.now, date_only, Untouched)
                ELSE IF ui.end_type = ABSOLUTE
                THEN select_datetime(initial_end, date_only, ui.end)
                ELSE Untouched
        label == IF ui.start_type = RELATIVE THEN "start-duration" ELSE "end-duration"
        finish(start, end, sessionAfter) ==
            [range |-> IF invalid_range(start, end)
                       THEN [NoRange EXCEPT !.halted = TRUE, !.message = "st.info"]
                       ELSE [NoRange EXCEPT !.start = start, !.end = end],
             session |-> sessionAfter]
        relative(d) ==
            IF d.state.periods < 1 /\ ui.strict
            THEN [range |-> [NoRange EXCEPT !.raised = TRUE], session |-> session]
            ELSE IF ui.start_type = RELATIVE
            THEN finish(end0 - d.delta, end0, [session EXCEPT ![label] = d.state])
            ELSE finish(start0, start0 + d.delta, [session EXCEPT ![label] = d.state])
    IN  IF ui.start_type = RELATIVE /\ ui.end_type = RELATIVE
        THEN [range |-> [NoRange EXCEPT !.halted = TRUE, !.message = "st.error"],
              session |-> session]
        ELSE IF ui.start_type = RELATIVE \/ ui.end_type = RELATIVE
        THEN relative(DurationWidget_select(duration_widget, session[label], ui.unit, ui.periods))
        ELSE finish(start0, end0, session)


\* 2019-04-11 00:35 and 2019-05-11 21:30 as seconds since 2019-04-11 00:00,
\* 02:35 of the first day and 00:35 of the second
RangeTimes == {2100, 30 * 86400 + 77400, 9300, 86400 + 2100}

\* datetime.datetime.now() with second=0
NowTimes == {600, 86400 + 4200}

MaxPeriods == 2

MaxPasses == 2

NoUi == [start_type |-> ABSOLUTE, end_type |-> ABSOLUTE, start |-> Untouched,
         end |-> Untouched, unit |-> "", periods |-> Untouched, now |-> 600,
         strict |-> FALSE]

\* what the widgets of a pass may return: a widget that the pass does not show
\* returns nothing
RangeUis ==
    {ui \in [start_type : Anchors, end_type : Anchors,
             start : {Untouched} \cup RangeTimes, end : {Untouched} \cup RangeTimes,
             unit : {""} \cup DOMAIN UnitSeconds, periods : {Untouched} \cup (1..MaxPeriods),
             now : NowTimes, strict : BOOLEAN] :
        /\ ui.start # Untouched => ui.start_type = ABSOLUTE
        /\ ui.end # Untouched => ui.end_type = ABSOLUTE
        /\ (ui.unit # "" \/ ui.periods # Untouched \/ ui.strict)
              => (ui.start_type = RELATIVE) # (ui.end_type = RELATIVE)
        /\ ui.now # NoUi.now => NOW \in {ui.start_type, ui.end_type}}

NoSession == [label \in {"start-duration", "end-duration"} |-> NotSet]

InitRange ==
    /\ cIn \in [initial_start : RangeTimes, initial_end : RangeTimes, date_only : BOOLEAN]
    /\ cOut = [passes |-> 0, session |-> NoSession, start_type |-> "", end_type |-> "",
               interaction |-> FALSE, range |-> NoRange]
    /\ CacheIdle /\ QueryIdle /\ ConfigIdle /\ LoadIdle /\ PoolIdle /\ PerfIdle

\* one pass of the script through DataLoaderWidget.select_range(initial, ...)
DataLoaderWidget_select_range ==
    /\ cOut.passes < MaxPasses
    /\ \E ui \in RangeUis :
       \E r \in {select_range(cIn.initial_start, cIn.initial_end, cIn.date_only,
                              cOut.session, ui)} :
          cOut' = [passes |-> cOut.passes + 1, session |-> r.session,
                   start_type |-> ui.start_type, end_type |-> ui.end_type,
                   interaction |-> \/ cOut.interaction
                                   \/ ui.start # Untouched \/ ui.end # Untouched
                                   \/ ui.unit # "" \/ ui.periods # Untouched,
                   range |-> r.range]
    /\ UNCHANGED cIn

NextRange == DataLoaderWidget_select_range /\ UNCHANGED callRest

SpecRange == InitRange /\ [][NextRange]_vars

(***************************************************************************)
(* Claims about DataLoaderWidget.select_range (specification SpecRange).   *)
(***************************************************************************)
RangeSelected == cOut.passes > 0

Returned == RangeSelected /\ ~cOut.range.halted /\ ~cOut.range.raised

\* C21: with no user interaction, select_range(initial=(start, end)) returns
\* exactly (start, end) for every anchor combination in which at least one end
\* is absolute (absolute/absolute, absolute/relative, relative/absolute); with
\* date_only=True it returns (start.date(), end.date()).
C21_ReturnsInitialRange ==
    (/\ RangeSelected
     /\ ~cOut.interaction
     /\ cIn.initial_start < cIn.initial_end
     /\ <<cOut.start_type, cOut.end_type>>
            \in {<<ABSOLUTE, ABSOLUTE>>, <<ABSOLUTE, RELATIVE>>, <<RELATIVE, ABSOLUTE>>})
        => /\ Returned
           /\ cOut.range.start
                  = IF cIn.date_only THEN date(cIn.initial_start) ELSE cIn.initial_start
           /\ cOut.range.end
                  = IF cIn.date_only THEN date(cIn.initial_end) ELSE cIn.initial_end

\* select_range(initial=(2019-04-11 00:35, 2019-05-11 21:30)) with the anchors
\* absolute/relative and no interaction has returned an end of 21:35
C21_Witness ==
    /\ cIn = [initial_start |-> 2100, initial_end |-> 30 * 86400 + 77400, date_only |-> FALSE]
    /\ cOut.passes = 1
    /\ ~cOut.interaction
    /\ cOut.start_type = ABSOLUTE /\ cOut.end_type = RELATIVE
    /\ Returned
    /\ cOut.range.start = 2100
    /\ cOut.range.end = 30 * 86400 + 77400 + 300

\* the same call with date_only=True has returned the dates 2019-04-11 and
\* 2019-05-12
C21_WitnessDateOnly ==
    /\ cIn = [initial_start |-> 2100, initial_end |-> 30 * 86400 + 77400, date_only |-> TRUE]
    /\ cOut.passes = 1
    /\ ~cOut.interaction
    /\ cOut.start_type = ABSOLUTE /\ cOut.end_type = RELATIVE
    /\ Returned
    /\ cOut.range.start = 0
    /\ cOut.range.end = 31 * 86400

\* what holds: the initial range is returned when both anchors are absolute
\* (and the two dates differ when date_only), and when it is a whole number of
\* hours long and date_only is False
C21_ReturnsInitialRangeOfWholeUnits ==
    (/\ RangeSelected
     /\ ~cOut.interaction
     /\ cOut.passes = 1
     /\ cIn.initial_start < cIn.initial_end
     /\ \/ /\ <<cOut.start_type, cOut.end_type>> = <<ABSOLUTE, ABSOLUTE>>
           /\ cIn.date_only => date(cIn.initial_start) < date(cIn.initial_end)
        \/ /\ <<cOut.start_type, cOut.end_type>>
                  \in {<<ABSOLUTE, RELATIVE>>, <<RELATIVE, ABSOLUTE>>}
           /\ ~cIn.date_only
           /\ (cIn.initial_end - cIn.initial_start) % UnitSeconds["hours"] = 0)
        => /\ Returned
           /\ cOut.range.start
                  = IF cIn.date_only THEN date(cIn.initial_start) ELSE cIn.initial_start
           /\ cOut.range.end
                  = IF cIn.date_only THEN date(cIn.initial_end) ELSE cIn.initial_end

\* C26: select_range never returns an invalid range: it returns only when
\* start < end, and when both the start and the end anchor are relative, or
\* when start >= end, it shows a message and halts the pass instead of
\* returning.
C26_NeverReturnsInvalidRange ==
    RangeSelected
        => /\ Returned => cOut.range.start < cOut.range.end
           /\ (cOut.start_type = RELATIVE /\ cOut.end_type = RELATIVE)
                 => cOut.range.halted /\ cOut.range.message = "st.error"
           /\ cOut.range.halted
                 => /\ cOut.range.message \in {"st.error", "st.info"}
                    /\ cOut.range.start = Untouched /\ cOut.range.end = Untouched
           /\ cOut.range.halted <=> cOut.range.message # ""

\* the user chose an absolute end equal to the absolute start, and the pass
\* was halted with "Select valid range."
C26_Witness ==
    /\ cOut.start_type = ABSOLUTE /\ cOut.end_type = ABSOLUTE
    /\ cOut.interaction
    /\ cIn.initial_start = 2100 /\ cIn.initial_end = 9300
    /\ cOut.range.halted
    /\ cOut.range.message = "st.info"

\* both anchors relative: halted with the error message
C26_WitnessRelative ==
    /\ cOut.start_type = RELATIVE /\ cOut.end_type = RELATIVE
    /\ cOut.range.halted
    /\ cOut.range.message = "st.error"

\* a range was returned after the user changed the unit of the duration
C26_WitnessReturned ==
    /\ cOut.passes = 2
    /\ cOut.interaction
    /\ cOut.start_type = RELATIVE /\ cOut.end_type = NOW
    /\ cOut.session["start-duration"].unit = "minutes"
    /\ cOut.session["start-duration"].previous = "minutes"
    /\ Returned
    /\ cOut.range.start < cOut.range.end


(***************************************************************************)
(* cli.py: the command `new --out=DIR` (specification SpecNew).  cIn is    *)
(* [template, exists]: the files of the directory time_split_app/new, and  *)
(* whether DIR exists; cOut is [done, raised, created]: the files of DIR.  *)
(***************************************************************************)
\* files = [...] of new(), in the order in which they are copied
files == <<"Dockerfile", "entrypoint.sh", "my_extensions.py", "README.md", "start-dev.sh">>

\* the Python files of time_split_app/new
TemplateSources ==
    {"my_extensions.py", "extensions/my_dataset_loader.py", "extensions/my_kwargs_type.py",
     "extensions/my_plot_fn.py", "extensions/my_select_fn.py"}

\* the other files that time_split_app/new may hold
TemplateData ==
    {"Dockerfile", "README.md", "datasets/covid19.csv", "datasets/datasets.toml",
     "entrypoint.sh", "extensions.env", "extensions/__init__.py", "start-dev.sh"}

\* the files asserted by test_new
TestNewFiles ==
    {"Dockerfile", "README.md", "datasets/covid19.csv", "datasets/datasets.toml",
     "entrypoint.sh", "extensions.env", "extensions/__init__.py",
     "extensions/my_dataset_loader.py", "extensions/my_kwargs_type.py",
     "extensions/my_plot_fn.py", "extensions/my_select_fn.py", "start-dev.sh"}

\* the index of the first of `files` that the template does not hold, or
\* Len(files) + 1
first_missing(template) ==
    LET missing == {k \in 1..Len(files) : files[k] \notin template}
    IN  IF missing = {} THEN Len(files) + 1
        ELSE CHOOSE k \in missing : \A j \in missing : k <= j

\* new(out): [raised, created]
new(template, exists) ==
    IF exists
    THEN [raised |-> "FileExistsError", created |-> {}]
    ELSE [raised |-> IF first_missing(template) <= Len(files)
                     THEN "FileNotFoundError" ELSE "",
          created |-> {files[k] : k \in 1..(first_missing(template) - 1)}]

InitNew ==
    /\ cIn \in [template : {TemplateSources \cup d : d \in SUBSET TemplateData},
                exists : BOOLEAN]
    /\ cOut = [done |-> FALSE, raised |-> "", created |-> {}]
    /\ CacheIdle /\ QueryIdle /\ ConfigIdle /\ LoadIdle /\ PoolIdle /\ PerfIdle

\* python -m time_split app new --out=DIR
cli_new ==
    /\ ~cOut.done
    /\ \E r \in {new(cIn.template, cIn.exists)} :
          cOut' = [done |-> TRUE, raised |-> r.raised, created |-> r.created]
    /\ UNCHANGED cIn

NextNew == cli_new /\ UNCHANGED callRest

SpecNew == InitNew /\ [][NextNew]_vars

(***************************************************************************)
(* Claims about the command `new` (specification SpecNew).                 *)
(***************************************************************************)
\* C22 as stated: the command `new --out=DIR` creates DIR containing exactly
\* the project template's files: Dockerfile, README.md, datasets/covid19.csv,
\* datasets/datasets.toml, entrypoint.sh, extensions.env,
\* extensions/__init__.py, extensions/my_dataset_loader.py,
\* extensions/my_kwargs_type.py, extensions/my_plot_fn.py,
\* extensions/my_select_fn.py and start-dev.sh.
C22_CreatesTemplateFiles ==
    (cOut.done /\ ~cIn.exists /\ TestNewFiles \subseteq cIn.template)
        => cOut.created = TestNewFiles

\* the template held every file, and DIR holds the five files of `files`
C22_Witness ==
    /\ cOut.done
    /\ ~cIn.exists
    /\ cIn.template = TemplateSources \cup TemplateData
    /\ cOut.raised = ""
    /\ cOut.created = {"Dockerfile", "entrypoint.sh", "my_extensions.py", "README.md",
                       "start-dev.sh"}

\* what holds: DIR holds files of the list `files` only, all five of them when
\* the template has them
C22_CreatesListedFiles ==
    cOut.done
        => /\ cOut.created \subseteq {files[k] : k \in 1..Len(files)}
           /\ (~cIn.exists /\ TemplateData \subseteq cIn.template)
                 => cOut.created = {files[k] : k \in 1..Len(files)}

=============================================================================
